---- MODULE Spec2Model ----
(***************************************************************************)
(* Model of the quarantine / anti-spam cog of am_bot                       *)
(* (src/am_bot/cogs/quarantine.py): the per-user message history, the      *)
(* cross-channel duplicate detector, the retention sweep and the           *)
(* quarantine workflow driven by on_message and by the /quarantine         *)
(* command; and of the handlers of the workshop, starboard and role        *)
(* assignment cogs (workshop.py, starboard.py, role_assignment.py).        *)
(*                                                                         *)
(* Text is a sequence of characters; a character is a one-token string.    *)
(* "Idot" stands for U+0130 (capital I with dot above), whose lowercase    *)
(* form in Python is the two code points "i" + U+0307 ("cdot").            *)
(* Time is an integer number of seconds.                                   *)
(***************************************************************************)
EXTENDS Integers, Sequences, FiniteSets, TLC

VARIABLES
    cfg,        \* the configuration read at import (env vars, constants)
    history,    \* self.message_history: user id -> sequence of MessageRecord
    clock,      \* datetime.now(timezone.utc), in seconds
    runs,       \* the handler invocations (on_message, quarantine_command)
    recorded,   \* ghost: per user, every record _record_message appended
    feed,       \* driver of the record-call scenario: the inputs of the calls
    cand,       \* driver of the detector scenario: the candidate message
    verdict,    \* driver of the detector scenario: the detector's answer
    cleanup_task, \* _cleanup_task: the sweeper task, where it sleeps
    last,       \* ghost: what the last step did
    workshop,   \* WorkshopCog: a member's voice state, grants and handlers
    starboard,  \* StarboardCog: _starred_message_ids, the posts, the handlers
    role_assignment \* RoleAssignmentCog: its tasks and the reaction messages

vars ==
    <<cfg, history, clock, runs, recorded, feed, cand, verdict, cleanup_task,
      last, workshop, starboard, role_assignment>>

----------------------------------------------------------------------------
(* Program constants and configuration defaults.                           *)

SPAM_SIMILARITY_PERCENT == 85
SPAM_CHANNEL_THRESHOLD == 3
MESSAGE_HISTORY_SECONDS == 3600
SPAM_MIN_MESSAGE_LENGTH == 20
MAX_MESSAGES_PER_USER == 50
MAX_CONTENT_LENGTH == 200
AUTOJUNK_MIN_LENGTH == 200

----------------------------------------------------------------------------
(* Text: str slicing, str.lower, str.strip.                                *)

Rep(c, n) == [i \in 1..n |-> c]

Min(a, b) == IF a <= b THEN a ELSE b

Max(a, b) == IF a >= b THEN a ELSE b

SetMax(S) == CHOOSE x \in S : \A y \in S : x >= y

SetMin(S) == CHOOSE x \in S : \A y \in S : x <= y

\* c.lower() for one character: a sequence, since U+0130 lowers to two.
LowerChar(c) ==
    CASE c = "A" -> <<"a">>
      [] c = "B" -> <<"b">>
      [] c = "C" -> <<"c">>
      [] c = "X" -> <<"x">>
      [] c = "Idot" -> <<"i", "cdot">>
      [] OTHER -> <<c>>

RECURSIVE LowerRange(_, _, _)
\* The lowercase forms of the characters s[lo..hi], concatenated (by halves).
LowerRange(s, lo, hi) ==
    IF lo > hi THEN <<>>
    ELSE IF lo = hi THEN LowerChar(s[lo])
    ELSE LowerRange(s, lo, (lo + hi) \div 2)
            \o LowerRange(s, (lo + hi) \div 2 + 1, hi)

\* s.lower().
Lower(s) == LowerRange(s, 1, Len(s))

\* s[:n]
Truncate(s, n) == SubSeq(s, 1, Min(Len(s), n))

IsSpace(c) == c = " "

\* s.strip()
Strip(s) ==
    LET keep == {i \in 1..Len(s) : ~IsSpace(s[i])}
    IN  IF keep = {} THEN <<>>
        ELSE LET lo == CHOOSE i \in keep : \A j \in keep : i <= j
                 hi == CHOOSE i \in keep : \A j \in keep : i >= j
             IN  SubSeq(s, lo, hi)

----------------------------------------------------------------------------
(* difflib.SequenceMatcher(None, a, b).ratio(), as _get_similarity calls   *)
(* it: no junk predicate, autojunk on.                                     *)

\* The "popular" characters of b, which autojunk drops from the index b2j.
Popular(b) ==
    IF Len(b) >= AUTOJUNK_MIN_LENGTH
    THEN {c \in {b[j] : j \in 1..Len(b)} :
            Cardinality({j \in 1..Len(b) : b[j] = c}) > (Len(b) \div 100) + 1}
    ELSE {}

RECURSIVE RunBack(_, _, _, _, _, _, _)
\* Length of the longest common run of indexed characters that ends at
\* a[i], b[j] and stays inside a[alo..], b[blo..] (j2len in the source).
RunBack(a, b, pop, i, j, alo, blo) ==
    IF i < alo \/ j < blo THEN 0
    ELSE IF a[i] # b[j] \/ b[j] \in pop THEN 0
    ELSE 1 + RunBack(a, b, pop, i - 1, j - 1, alo, blo)

\* The number of leading steps t = 1, 2, ... up to lim for which same(t)
\* holds, given the set of the steps for which it fails.
LeadingSteps(lim, failing) ==
    IF failing = {} THEN Max(lim, 0) ELSE SetMin(failing) - 1

\* How far a match starting at a[i], b[j] grows to the left by equal characters.
ExtendBack(a, b, i, j, alo, blo) ==
    LeadingSteps(Min(i - alo, j - blo),
                 {t \in 1..Min(i - alo, j - blo) : a[i - t] # b[j - t]})

\* How far a match ending before a[i], b[j] grows to the right by equal characters.
ExtendFwd(a, b, i, j, ahi, bhi) ==
    LeadingSteps(Min(ahi - i + 1, bhi - j + 1),
                 {t \in 1..Min(ahi - i + 1, bhi - j + 1) :
                     a[i + t - 1] # b[j + t - 1]})

\* The positions of b[blo..bhi] that the index b2j holds: those of the
\* characters that are not popular.
Indexed(b, pop, blo, bhi) == {j \in blo..bhi : b[j] \notin pop}

\* The lengths of the common runs of indexed characters inside
\* a[alo..ahi], b[blo..bhi], one for each pair of end positions.
RunLengths(a, b, pop, alo, ahi, blo, bhi) ==
    {0} \cup {RunBack(a, b, pop, e[1], e[2], alo, blo) :
                 e \in (alo..ahi) \X Indexed(b, pop, blo, bhi)}

\* The block <<i, j, k>> of length k that ends at a[iend] and is the
\* earliest in b among those.
EarliestInB(a, b, pop, alo, blo, bhi, k, iend) ==
    <<iend - k + 1,
      SetMin({j \in Indexed(b, pop, blo, bhi) :
                 RunBack(a, b, pop, iend, j, alo, blo) = k}) - k + 1,
      k>>

\* The longest block of indexed characters: the earliest in a, then in b,
\* among those of the greatest length k (besti, bestj, bestsize).
LongestBlock(a, b, pop, alo, ahi, blo, bhi, k) ==
    IF k = 0 THEN <<alo, blo, 0>>
    ELSE EarliestInB(a, b, pop, alo, blo, bhi, k,
             SetMin({i \in alo..ahi :
                       \E j \in Indexed(b, pop, blo, bhi) :
                           RunBack(a, b, pop, i, j, alo, blo) = k}))

\* The block m grown by n characters to the left.
GrownBack(m, n) == <<m[1] - n, m[2] - n, m[3] + n>>

\* The block m grown to the left over equal characters.
GrowBack(a, b, alo, blo, m) ==
    GrownBack(m, ExtendBack(a, b, m[1], m[2], alo, blo))

\* The block m grown to the right over equal characters.
GrowFwd(a, b, ahi, bhi, m) ==
    <<m[1], m[2], m[3] + ExtendFwd(a, b, m[1] + m[3], m[2] + m[3], ahi, bhi)>>

\* find_longest_match on a[alo..ahi], b[blo..bhi] (1-based, inclusive):
\* <<i, j, k>>, the longest block of indexed characters, the earliest in a
\* and then in b among the longest, then grown over equal neighbours.
FindLongestMatch(a, b, pop, alo, ahi, blo, bhi) ==
    GrowFwd(a, b, ahi, bhi,
        GrowBack(a, b, alo, blo,
            LongestBlock(a, b, pop, alo, ahi, blo, bhi,
                SetMax(RunLengths(a, b, pop, alo, ahi, blo, bhi)))))

RECURSIVE MatchedCount(_, _, _, _, _, _, _)
RECURSIVE MatchedAround(_, _, _, _, _, _, _, _)
\* The size of the block m plus what get_matching_blocks finds to its left
\* and to its right.
MatchedAround(a, b, pop, alo, ahi, blo, bhi, m) ==
    IF m[3] = 0 THEN 0
    ELSE m[3]
         + (IF alo < m[1] /\ blo < m[2]
            THEN MatchedCount(a, b, pop, alo, m[1] - 1, blo, m[2] - 1)
            ELSE 0)
         + (IF m[1] + m[3] <= ahi /\ m[2] + m[3] <= bhi
            THEN MatchedCount(a, b, pop, m[1] + m[3], ahi, m[2] + m[3], bhi)
            ELSE 0)

\* The total size of get_matching_blocks on a[alo..ahi], b[blo..bhi].
MatchedCount(a, b, pop, alo, ahi, blo, bhi) ==
    IF alo > ahi \/ blo > bhi THEN 0
    ELSE MatchedAround(a, b, pop, alo, ahi, blo, bhi,
                       FindLongestMatch(a, b, pop, alo, ahi, blo, bhi))

\* The matched character count M of ratio() = 2.0 * M / T.
Matches(a, b) == MatchedCount(a, b, Popular(b), 1, Len(a), 1, Len(b))

\* _get_similarity(text1, text2) >= pct / 100, in exact arithmetic
\* (ratio() is 1.0 when both texts are empty).
SimilarityAtLeast(text1, text2, pct) ==
    LET T == Len(text1) + Len(text2)
    IN  IF T = 0 THEN 100 >= pct
        ELSE 200 * Matches(text1, text2) >= pct * T

----------------------------------------------------------------------------
(* The message history store.                                              *)

Put(h, k, v) == [x \in (DOMAIN h) \cup {k} |-> IF x = k THEN v ELSE h[x]]

Del(h, k) == [x \in (DOMAIN h) \ {k} |-> h[x]]

EmptyHistory == [u \in {} |-> <<>>]

\* The MessageRecord that _record_message builds: the content is cut to
\* the first MAX_CONTENT_LENGTH characters and then lowercased.
MessageRecord(content, channel_id, now) ==
    [content |-> Lower(Truncate(content, MAX_CONTENT_LENGTH)),
     channel_id |-> channel_id,
     timestamp |-> now]

\* Mutant of LastN: user_history[:n], which keeps the oldest records.
FirstN(s, n) == IF Len(s) > n THEN SubSeq(s, 1, n) ELSE s

\* user_history[-n:]
LastN(s, n) == IF Len(s) > n THEN SubSeq(s, Len(s) - n + 1, Len(s)) ELSE s

\* Mutant of RecordMessage: the new record is put in front of the list.
RecordMessageInFront(h, author, content, channel_id, now) ==
    Put(h, author,
        FirstN(<<MessageRecord(content, channel_id, now)>>
                  \o (IF author \in DOMAIN h THEN h[author] ELSE <<>>),
               MAX_MESSAGES_PER_USER))

\* _record_message: message_history after the call.
RecordMessage(h, author, content, channel_id, now) ==
    LET record == MessageRecord(content, channel_id, now)
        user_history ==
            Append(IF author \in DOMAIN h THEN h[author] ELSE <<>>, record)
    IN  IF Len(user_history) > MAX_MESSAGES_PER_USER
        THEN Put(h, author, LastN(user_history, MAX_MESSAGES_PER_USER))
        ELSE Put(h, author, user_history)

\* Mutant of FreshMessages: a record exactly at the cutoff is kept.
FreshMessagesInclusive(messages, cutoff) ==
    SelectSeq(messages, LAMBDA msg : msg.timestamp >= cutoff)

\* The list comprehension of _cleanup_old_messages for one user.
FreshMessages(messages, cutoff) ==
    SelectSeq(messages, LAMBDA msg : msg.timestamp > cutoff)

\* Mutant of CleanupOldMessages: the users left with no record stay.
CleanupKeepsEmptyUsers(h, now) ==
    [u \in DOMAIN h |-> FreshMessages(h[u], now - MESSAGE_HISTORY_SECONDS)]

\* Mutant of CleanupOldMessages: a user with an expired record is dropped
\* with all the records.
CleanupDropsWholeUsers(h, now) ==
    LET cutoff == now - MESSAGE_HISTORY_SECONDS
    IN  [u \in {v \in DOMAIN h : FreshMessages(h[v], cutoff) = h[v]} |-> h[u]]

\* _cleanup_old_messages: message_history after the call.
CleanupOldMessages(h, now) ==
    LET cutoff == now - MESSAGE_HISTORY_SECONDS
        filtered == [u \in DOMAIN h |-> FreshMessages(h[u], cutoff)]
        users_to_remove == {u \in DOMAIN h : filtered[u] = <<>>}
    IN  [u \in (DOMAIN h) \ users_to_remove |-> filtered[u]]

----------------------------------------------------------------------------
(* The cross-channel duplicate detector.                                   *)

\* Mutant of LenRatioOutOfRange: the quick length check is left out.
LenRatioUnchecked(la, lb) == FALSE

\* len_ratio < 0.5 or len_ratio > 2.0, where len_ratio is
\* len(content_lower) / len(record.content), or 0 for an empty record.
LenRatioOutOfRange(la, lb) ==
    IF lb = 0 THEN TRUE ELSE 2 * la < lb \/ la > 2 * lb

RECURSIVE SpamChannels(_, _, _, _, _, _)
\* The loop over the history: the set spam_channels after record k onwards.
SpamChannels(hist, content_lower, current_channel_id, pct, k, acc) ==
    IF k > Len(hist) THEN acc
    ELSE LET record == hist[k]
             next ==
                IF record.channel_id = current_channel_id THEN acc
                ELSE IF LenRatioOutOfRange(Len(content_lower), Len(record.content))
                     THEN acc
                ELSE IF SimilarityAtLeast(content_lower, record.content, pct)
                     THEN acc \cup {record.channel_id}
                ELSE acc
         IN  SpamChannels(hist, content_lower, current_channel_id, pct, k + 1, next)

\* Mutant of GetHistory: self.message_history[user_id], which makes the
\* default-creating dictionary add an empty entry for a new user.
IndexHistory(h, user_id) ==
    IF user_id \in DOMAIN h THEN [found |-> h[user_id], store |-> h]
    ELSE [found |-> <<>>, store |-> Put(h, user_id, <<>>)]

\* self.message_history.get(user_id, []): what is found, and the store
\* after the lookup.
GetHistory(h, user_id) ==
    [found |-> IF user_id \in DOMAIN h THEN h[user_id] ELSE <<>>, store |-> h]

\* message_history after a call of _detect_cross_channel_spam: the lookup
\* is its only access, past the two short-circuits on the content.
StoreAfterDetect(h, user_id, new_content, c) ==
    IF Strip(new_content) = <<>> \/ Len(Strip(new_content)) < c.minLength
    THEN h
    ELSE GetHistory(h, user_id).store

\* Mutant of DetectCrossChannelSpam: the minimum-length short-circuit is
\* left out.
DetectWithoutMinLength(h, user_id, new_content, current_channel_id, c) ==
    LET content == Strip(new_content)
        hist == IF user_id \in DOMAIN h THEN h[user_id] ELSE <<>>
    IN  IF content = <<>> THEN FALSE
        ELSE IF hist = <<>> THEN FALSE
        ELSE LET spam_channels ==
                    SpamChannels(hist, Lower(content), current_channel_id,
                                 c.similarityPct, 1, {})
             IN  Cardinality(spam_channels) + 1 >= c.channelThreshold

\* Mutant of DetectCrossChannelSpam: the channel threshold is exclusive.
DetectExclusiveThreshold(h, user_id, new_content, current_channel_id, c) ==
    LET content == Strip(new_content)
        hist == IF user_id \in DOMAIN h THEN h[user_id] ELSE <<>>
    IN  IF content = <<>> THEN FALSE
        ELSE IF Len(content) < c.minLength THEN FALSE
        ELSE IF hist = <<>> THEN FALSE
        ELSE LET spam_channels ==
                    SpamChannels(hist, Lower(content), current_channel_id,
                                 c.similarityPct, 1, {})
             IN  Cardinality(spam_channels) + 1 > c.channelThreshold

\* _detect_cross_channel_spam under configuration c.
DetectCrossChannelSpam(h, user_id, new_content, current_channel_id, c) ==
    LET content == Strip(new_content)
        hist == IF user_id \in DOMAIN h THEN h[user_id] ELSE <<>>
    IN  IF content = <<>> THEN FALSE
        ELSE IF Len(content) < c.minLength THEN FALSE
        ELSE IF hist = <<>> THEN FALSE
        ELSE LET spam_channels ==
                    SpamChannels(hist, Lower(content), current_channel_id,
                                 c.similarityPct, 1, {})
             IN  Cardinality(spam_channels) + 1 >= c.channelThreshold

----------------------------------------------------------------------------
(* Configuration.  The similarity threshold is kept in percent.            *)

DefaultCfg ==
    [honeypot |-> 0,            \* QUARANTINE_HONEYPOT_CHANNEL_ID
     quarantineRole |-> 0,      \* QUARANTINE_ROLE_ID
     staffRole |-> 0,           \* STAFF_ROLE_ID
     roleInGuild |-> FALSE,     \* guild.get_role(QUARANTINE_ROLE_ID) is not None
     similarityPct |-> SPAM_SIMILARITY_PERCENT,
     channelThreshold |-> SPAM_CHANNEL_THRESHOLD,
     minLength |-> SPAM_MIN_MESSAGE_LENGTH]

NoRuns == <<>>

Idle == [op |-> "init"]

\* _cleanup_task.  state is where the coroutine _periodic_cleanup stands:
\* "none" (no task was created), "initial" (in await asyncio.sleep(60)),
\* "interval" (in await asyncio.sleep(_CLEANUP_INTERVAL_SECONDS)) or
\* "cancelled" (ended by CancelledError).  wake is the time the sleep is
\* over; must_cancel says that Task.cancel() was called on the sleeping task.
NoTask == [state |-> "none", wake |-> 0, must_cancel |-> FALSE]

\* await asyncio.sleep(60): the first cycle of the sweeper is not before.
CLEANUP_INITIAL_DELAY == 60

CLEANUP_INTERVAL_SECONDS == 300

\* cog_load at time now: the task is created and sleeps its initial delay.
CreateTask(now) ==
    [state |-> "initial", wake |-> now + CLEANUP_INITIAL_DELAY,
     must_cancel |-> FALSE]

----------------------------------------------------------------------------
(* The other cogs.  Each keeps its state in one record; the scenarios of   *)
(* the quarantine cog leave them as constructed.                           *)

\* The voice channels a member can be in: none, the workshop voice channel
\* (WORKSHOP_VOICE_CHANNEL_ID) or any other one.
VoiceStates == {"none", "workshop", "other"}

\* WorkshopCog and the guild state it acts on, for one member: the voice
\* channel the member is in, whether the member holds the workshop role and
\* the view overwrite of the workshop text channel, and the invocations of
\* on_voice_state_update.
WorkshopIdle ==
    [channel |-> "none", role |-> FALSE, overwrite |-> FALSE,
     handlers |-> <<>>]

\* StarboardCog.__init__: no starred message ids and no last message (the
\* empty sequence stands for None); posts is the starboard
\* channel, the source message id of every message sent to it, and handlers
\* the invocations of on_raw_reaction_add.
StarboardIdle ==
    [_starred_message_ids |-> {}, _last_message |-> <<>>, posts |-> <<>>,
     handlers |-> <<>>]

\* RoleAssignmentCog.__init__ keeps the bot only: loaded says that add_cog
\* has added the cog, tasks is what the cog has given to loop.create_task,
\* roles the assignable roles a member holds and handlers the invocations of
\* on_raw_reaction_add and on_raw_reaction_remove.
RoleAssignmentIdle ==
    [loaded |-> FALSE, tasks |-> <<>>, roles |-> {}, handlers |-> <<>>]

OtherCogsIdle ==
    /\ workshop = WorkshopIdle
    /\ starboard = StarboardIdle
    /\ role_assignment = RoleAssignmentIdle

----------------------------------------------------------------------------
(* Scenario 1: the detector applied to a drawn history and candidate.      *)

MaxHist == 2

\* The minimum length the detector scenario is configured with.
DetMinLength == SPAM_MIN_MESSAGE_LENGTH \div 5

DetRecordContents ==
    { <<"a", "b", "c", "d">>,
      <<"a", "b", "c">>,
      <<"a", "b", "c", "d", "x", "x", "x", "x">>,
      <<"a", "b", "c", "d", "x", "x", "x", "x", "x">>,
      <<>> }

DetCandidates ==
    { <<"A", "B", "c", "d">>,
      <<" ", "a", "b", "c", "d", " ">>,
      <<"a", "b", "c">>,
      <<" ", " ">>,
      <<>>,
      <<"a", "b", "c", "d", "x", "x", "x", "x">>,
      <<"a", "b", "c", "d", "x", "x", "x", "x", "x">> }

DetChannels == {1, 2, 3}

DetRecords ==
    [content : DetRecordContents, channel_id : DetChannels, timestamp : {0}]

DetHistories ==
    {EmptyHistory} \cup
    UNION { {[u \in {1} |-> h] : h \in [1..n -> DetRecords]} : n \in 1..MaxHist }

DetectInit ==
    /\ OtherCogsIdle
    /\ cfg \in {[DefaultCfg EXCEPT !.similarityPct = p, !.channelThreshold = t,
                                   !.minLength = DetMinLength] :
                  p \in {60, SPAM_SIMILARITY_PERCENT},
                  t \in {2, SPAM_CHANNEL_THRESHOLD}}
    /\ history \in DetHistories
    /\ cand \in [user : {1}, content : DetCandidates, channel : {3}]
    /\ verdict = {}
    /\ cleanup_task = NoTask
    /\ clock = 0
    /\ runs = NoRuns
    /\ recorded = EmptyHistory
    /\ feed = <<>>
    /\ last = Idle

\* The candidate passes the three short-circuits of the detector.
Examined(h, c, m) ==
    /\ Strip(m.content) # <<>>
    /\ Len(Strip(m.content)) >= c.minLength
    /\ m.user \in DOMAIN h

\* One call of _detect_cross_channel_spam; the answer is kept, together
\* with the set spam_channels the loop built (empty when short-circuited).
DetectCall ==
    /\ verdict = {}
    /\ verdict' =
          {[spam |-> DetectCrossChannelSpam(history, cand.user, cand.content,
                                            cand.channel, cfg),
            channels |->
                IF Examined(history, cfg, cand)
                THEN SpamChannels(history[cand.user], Lower(Strip(cand.content)),
                                  cand.channel, cfg.similarityPct, 1, {})
                ELSE {}]}
    /\ history' = StoreAfterDetect(history, cand.user, cand.content, cfg)
    /\ last' = [op |-> "detect"]
    /\ UNCHANGED <<workshop, starboard, role_assignment, cfg, clock, runs, recorded, feed, cand, cleanup_task>>

\* A second call with the same arguments, tried on the histories shorter
\* than the bound; its answer is kept as well.
DetectAgain ==
    /\ last.op = "detect"
    /\ cand.user \in DOMAIN history => Len(history[cand.user]) < MaxHist
    /\ verdict' = verdict \cup
          {[spam |-> DetectCrossChannelSpam(history, cand.user, cand.content,
                                            cand.channel, cfg),
            channels |->
                IF Examined(history, cfg, cand)
                THEN SpamChannels(history[cand.user], Lower(Strip(cand.content)),
                                  cand.channel, cfg.similarityPct, 1, {})
                ELSE {}]}
    /\ history' = StoreAfterDetect(history, cand.user, cand.content, cfg)
    /\ last' = [op |-> "detect_again"]
    /\ UNCHANGED <<workshop, starboard, role_assignment, cfg, clock, runs, recorded, feed, cand, cleanup_task>>

DetectNext == DetectCall \/ DetectAgain

SpecDetect == DetectInit /\ [][DetectNext]_vars

----------------------------------------------------------------------------
(* Scenario 2: a run of _record_message calls for one user.                *)

MaxCalls == 52

CapContents ==
    << <<"H", "e", "l", "l", "o", " ", "W", "o", "r", "l", "d">>,
       Rep("X", 205),
       <<"a", "b", "c">>,
       Rep("Idot", MAX_CONTENT_LENGTH) >>

CapInit ==
    /\ OtherCogsIdle
    /\ cfg = DefaultCfg
    /\ history = EmptyHistory
    /\ clock = 0
    /\ runs = NoRuns
    /\ recorded = EmptyHistory
    /\ feed \in [user : {1, 2}, channel : {1, 2}, next : 1..Len(CapContents)]
    /\ cand = <<>>
    /\ verdict = {}
    /\ cleanup_task = NoTask
    /\ last = Idle

\* One call of _record_message, one second after the previous one; the
\* calls take their contents in turn from CapContents.
CapRecord ==
    /\ Len(IF feed.user \in DOMAIN recorded THEN recorded[feed.user] ELSE <<>>)
          < MaxCalls
    /\ clock' = clock + 1
    /\ history' = RecordMessage(history, feed.user, CapContents[feed.next],
                                feed.channel, clock')
    /\ recorded' =
          Put(recorded, feed.user,
              Append(IF feed.user \in DOMAIN recorded
                     THEN recorded[feed.user] ELSE <<>>,
                     MessageRecord(CapContents[feed.next], feed.channel, clock')))
    /\ feed' = [feed EXCEPT !.next = (feed.next % Len(CapContents)) + 1]
    /\ last' = [op |-> "record", user |-> feed.user]
    /\ UNCHANGED <<workshop, starboard, role_assignment, cfg, runs, cand, cleanup_task, verdict>>

CapNext == CapRecord

SpecCap == CapInit /\ [][CapNext]_vars

----------------------------------------------------------------------------
(* Time and the retention sweep.                                           *)

MaxTicks == 3

\* Time passes: the clock advances by step seconds, up to step * ticks.
TickBy(step, ticks) ==
    /\ clock < ticks * step
    /\ clock' = clock + step
    /\ last' = Idle
    /\ UNCHANGED <<workshop, starboard, role_assignment, cfg, history, runs, recorded, feed, cand,
                   cleanup_task, verdict>>

\* Half the retention window at a time, so that a record can be exactly
\* one window old.
Tick == TickBy(MESSAGE_HISTORY_SECONDS \div 2, MaxTicks)

\* The positions <<user, index>> of the records of a history.
AllRecords(h) == UNION { {<<u, i>> : i \in 1..Len(h[u])} : u \in DOMAIN h }

Age(h, e, now) == now - h[e[1]][e[2]].timestamp

\* What a sweep did: the record counts before and after, the number of
\* records exactly one window old, the users dropped.
SweepNote(pre, post, now) ==
    [op |-> "sweep",
     before |-> Cardinality(AllRecords(pre)),
     after |-> Cardinality(AllRecords(post)),
     edge |-> Cardinality({e \in AllRecords(pre) :
                             Age(pre, e, now) = MESSAGE_HISTORY_SECONDS}),
     users |-> (DOMAIN pre) \ (DOMAIN post)]

\* One cycle of the sweeper: _cleanup_old_messages at the current time;
\* what it did is noted when it removed a record.
Sweep ==
    /\ clock >= CLEANUP_INITIAL_DELAY
    /\ history' = CleanupOldMessages(history, clock)
    /\ last' = IF history' = history THEN Idle
                ELSE SweepNote(history, history', clock)
    /\ UNCHANGED <<workshop, starboard, role_assignment, cfg, clock, runs, recorded, feed, cand,
                   cleanup_task, verdict>>

----------------------------------------------------------------------------
(* Scenario 3: the store under direct record calls, time and sweeps.       *)

MaxStore == 3

StoreInit ==
    /\ OtherCogsIdle
    /\ cfg = DefaultCfg
    /\ history = EmptyHistory
    /\ clock = 0
    /\ runs = NoRuns
    /\ recorded = EmptyHistory
    /\ feed = <<>>
    /\ cand = <<>>
    /\ verdict = {}
    /\ cleanup_task = CreateTask(0)
    /\ last = Idle

\* One call of _record_message at the current time.
StoreRecord ==
    \E u \in {1, 2}, content \in {<<"a">>, <<"B">>} :
        /\ Cardinality(AllRecords(history)) < MaxStore
        /\ history' = RecordMessage(history, u, content, 1, clock)
        /\ last' = [op |-> "record", user |-> u]
        /\ UNCHANGED <<workshop, starboard, role_assignment, cfg, clock, runs, recorded, feed, cand,
                       cleanup_task, verdict>>

StoreNext == StoreRecord \/ Tick \/ Sweep

SpecStore == StoreInit /\ [][StoreNext]_vars

----------------------------------------------------------------------------
(* Scenario 4: the sweeper task, from cog_load to cog_unload.              *)
(*                                                                         *)
(* Time has no end here, so it is kept relative to now: the clock stands   *)
(* at SweeperEpoch, and when SweeperStep seconds pass every timestamp and  *)
(* every wake-up time moves that far into the past.  A timestamp stops at  *)
(* 0, where the record is older than the retention window whatever its age *)
(* is; a wake-up time stops at now, where the sleep is over however late.  *)

MaxKept == 1

SweeperStep == CLEANUP_INITIAL_DELAY

SweeperEpoch == MESSAGE_HISTORY_SECONDS + SweeperStep

Earlier(t, floor) == Max(t - SweeperStep, floor)

AgedRecord(record) ==
    [record EXCEPT !.timestamp = Earlier(@, 0)]

Aged(h) ==
    [u \in DOMAIN h |-> [i \in 1..Len(h[u]) |-> AgedRecord(h[u][i])]]

Sleeping(task) == task.state \in {"initial", "interval"}

SweeperInit ==
    /\ OtherCogsIdle
    /\ cfg = DefaultCfg
    /\ history = EmptyHistory
    /\ clock = SweeperEpoch
    /\ runs = NoRuns
    /\ recorded = EmptyHistory
    /\ feed = <<>>
    /\ cand = <<>>
    /\ verdict = {}
    /\ cleanup_task = NoTask
    /\ last = Idle

\* SweeperStep seconds pass.
SweeperTick ==
    /\ history' = Aged(history)
    /\ cleanup_task' = IF Sleeping(cleanup_task)
                       THEN [cleanup_task EXCEPT !.wake = Earlier(@, clock)]
                       ELSE cleanup_task
    /\ last' = Idle
    /\ UNCHANGED <<workshop, starboard, role_assignment, cfg, clock, runs, recorded, feed, cand, verdict>>

\* One call of _record_message at the current time.
SweeperRecord ==
    /\ Cardinality(AllRecords(history)) < MaxKept
    /\ history' = RecordMessage(history, 1, <<"a">>, 1, clock)
    /\ last' = Idle
    /\ UNCHANGED <<workshop, starboard, role_assignment, cfg, clock, runs, recorded, feed, cand, cleanup_task,
                   verdict>>

\* cog_load, called once on a cog.
CogLoad ==
    /\ cleanup_task.state = "none"
    /\ cleanup_task' = CreateTask(clock)
    /\ last' = [op |-> "cog_load"]
    /\ UNCHANGED <<workshop, starboard, role_assignment, cfg, history, clock, runs, recorded, feed, cand, verdict>>

\* Task.cancel(): a request the sleeping task meets when it is resumed; no
\* effect on a task that has ended.
Cancel(task) ==
    IF Sleeping(task) THEN [task EXCEPT !.must_cancel = TRUE] ELSE task

\* cog_unload.
CogUnload ==
    /\ cleanup_task' = IF cleanup_task.state = "none" THEN cleanup_task
                       ELSE Cancel(cleanup_task)
    /\ last' = [op |-> "cog_unload"]
    /\ UNCHANGED <<workshop, starboard, role_assignment, cfg, history, clock, runs, recorded, feed, cand, verdict>>

\* The body of the loop of _periodic_cleanup at time now: the cycle, whose
\* error (if it raises one) is caught and logged, and the next sleep.
CycleHistory(h, now, outcome) ==
    IF outcome = "ok" THEN CleanupOldMessages(h, now) ELSE h

NextSleep(task, now) ==
    [task EXCEPT !.state = "interval",
                 !.wake = now + CLEANUP_INTERVAL_SECONDS]

\* What a resumption of the task did: how the cycle ended, or that
\* CancelledError ended the task, and the number of records removed.
CycleNote(pre, post, outcome) ==
    [op |-> "cycle", outcome |-> outcome,
     removed |-> Cardinality(AllRecords(pre)) - Cardinality(AllRecords(post))]

\* The ended task, after CancelledError came out of its sleep.
EndedTask == [state |-> "cancelled", wake |-> 0, must_cancel |-> FALSE]

\* Mutant of Resume: the sleep was inside the try, CancelledError is caught
\* as an error of the cycle and the loop goes on.
ResumeSwallowsCancel(outcome) ==
    /\ Sleeping(cleanup_task)
    /\ cleanup_task.must_cancel \/ clock >= cleanup_task.wake
    /\ history' = IF cleanup_task.must_cancel THEN history
                  ELSE CycleHistory(history, clock, outcome)
    /\ cleanup_task' = NextSleep([cleanup_task EXCEPT !.must_cancel = FALSE],
                                 clock)
    /\ last' = CycleNote(history, history', outcome)
    /\ UNCHANGED <<workshop, starboard, role_assignment, cfg, clock, runs, recorded, feed, cand, verdict>>

\* Mutant of Resume: the error of a cycle is not caught and ends the task.
ResumeErrorEndsLoop(outcome) ==
    /\ Sleeping(cleanup_task)
    /\ cleanup_task.must_cancel \/ clock >= cleanup_task.wake
    /\ IF cleanup_task.must_cancel \/ outcome # "ok"
       THEN /\ cleanup_task' = EndedTask
            /\ history' = history
            /\ last' = CycleNote(history, history', outcome)
       ELSE /\ cleanup_task' = NextSleep(cleanup_task, clock)
            /\ history' = CycleHistory(history, clock, outcome)
            /\ last' = CycleNote(history, history', outcome)
    /\ UNCHANGED <<workshop, starboard, role_assignment, cfg, clock, runs, recorded, feed, cand, verdict>>

\* Mutant of Resume: the first cycle does not wait for the initial delay.
ResumeAtOnce(outcome) ==
    /\ Sleeping(cleanup_task)
    /\ \/ cleanup_task.must_cancel
       \/ clock >= cleanup_task.wake
       \/ cleanup_task.state = "initial"
    /\ IF cleanup_task.must_cancel
       THEN /\ cleanup_task' = EndedTask
            /\ history' = history
            /\ last' = CycleNote(history, history', "CancelledError")
       ELSE /\ cleanup_task' = NextSleep(cleanup_task, clock)
            /\ history' = CycleHistory(history, clock, outcome)
            /\ last' = CycleNote(history, history', outcome)
    /\ UNCHANGED <<workshop, starboard, role_assignment, cfg, clock, runs, recorded, feed, cand, verdict>>

\* The event loop resumes _periodic_cleanup: its sleep is over, or the task
\* was cancelled and CancelledError is raised at the await, outside the try.
Resume(outcome) ==
    /\ Sleeping(cleanup_task)
    /\ cleanup_task.must_cancel \/ clock >= cleanup_task.wake
    /\ IF cleanup_task.must_cancel
       THEN /\ cleanup_task' = EndedTask
            /\ history' = history
            /\ last' = CycleNote(history, history', "CancelledError")
       ELSE /\ cleanup_task' = NextSleep(cleanup_task, clock)
            /\ history' = CycleHistory(history, clock, outcome)
            /\ last' = CycleNote(history, history', outcome)
    /\ UNCHANGED <<workshop, starboard, role_assignment, cfg, clock, runs, recorded, feed, cand, verdict>>

SweeperNext ==
    \/ SweeperTick
    \/ SweeperRecord
    \/ CogLoad
    \/ CogUnload
    \/ Resume("ok")
    \/ Resume("Exception")

SpecSweeper == SweeperInit /\ [][SweeperNext]_vars

\* The event loop goes on: time passes, a task whose sleep is over or that
\* was cancelled is resumed, and the cycles do not fail for ever
\* (_cleanup_old_messages itself raises nothing).
SweeperFairness ==
    /\ WF_vars(SweeperTick)
    /\ WF_vars(Resume("ok") \/ Resume("Exception"))
    /\ SF_vars(Resume("ok"))

SpecSweeperLive == SpecSweeper /\ SweeperFairness

----------------------------------------------------------------------------
(* The guild, as the handlers see it.                                      *)

HoneypotChannel == 4

QuarantineRole == 7

StaffRole == 8

\* guild.text_channels and guild.voice_channels
TextChannels == <<1, 2, 3, 4>>

VoiceChannels == <<5, 6>>

\* The order in which _purge_member_messages visits the channels.
PurgeOrder == TextChannels \o VoiceChannels

\* channel.permissions_for(channel.guild.me)
PermissionsFor(ch) ==
    [read_messages |-> ch # 6, manage_messages |-> ch \notin {2, 3, 4}]

\* member.roles: member 3 is staff.
RolesOf(member) == IF member = 3 THEN {StaffRole} ELSE {}

\* _is_staff
\* Mutant of IsStaff: with no staff role configured everyone is staff.
IsStaffUnconfiguredAllows(member, c) ==
    IF c.staffRole = 0 THEN TRUE
    ELSE \E role \in RolesOf(member) : role = c.staffRole

IsStaff(member, c) ==
    IF c.staffRole = 0 THEN FALSE
    ELSE \E role \in RolesOf(member) : role = c.staffRole

\* The first channel from position k on that _purge_channel sends a purge
\* call to (the others are skipped for lack of permission and count 0);
\* Len(PurgeOrder) + 1 when there is none.
NextPurge(k) ==
    SetMin({i \in k..Len(PurgeOrder) :
               /\ PermissionsFor(PurgeOrder[i]).read_messages
               /\ PermissionsFor(PurgeOrder[i]).manage_messages}
           \cup {Len(PurgeOrder) + 1})

----------------------------------------------------------------------------
(* The handlers.  A handler runs without interruption up to its next await *)
(* on the platform; pc names the await it is suspended at.                 *)

MaxRuns == 2

MaxTime == 1

SpamText ==
    <<"B", "u", "y", " ", "c", "h", "e", "a", "p", " ",
      "X", "a", "n", "a", "x", " ", "n", "o", "w", "!">>

ShortText == <<"o", "k">>

\* The inbound messages: members 1 and 2, the bot 9, a direct message.
MsgInputs ==
    [member : {1}, bot : {FALSE}, guild : {TRUE}, channel : {1, 2},
     content : {SpamText}]
    \cup [member : {1}, bot : {FALSE}, guild : {TRUE}, channel : {4},
          content : {ShortText}]
    \cup [member : {2}, bot : {FALSE}, guild : {TRUE}, channel : {1},
          content : {SpamText}]
    \cup [member : {9}, bot : {TRUE}, guild : {TRUE}, channel : {4},
          content : {SpamText}]
    \cup [member : {1}, bot : {FALSE}, guild : {FALSE}, channel : {9},
          content : {SpamText}]

\* The /quarantine invocations: <<invoker, target, target is a bot>>.
CmdInputs == {<<3, 1, FALSE>>, <<3, 3, FALSE>>, <<3, 9, TRUE>>, <<1, 2, FALSE>>}

NewRun(kind, member, bot, guild, channel, content, invoker) ==
    [kind |-> kind, member |-> member, bot |-> bot, guild |-> guild,
     channel |-> channel, content |-> content, invoker |-> invoker,
     pc |-> "done",
     trigger |-> "none",    \* which check called _handle_quarantine
     started |-> 0,         \* calls of _handle_quarantine
     checked |-> FALSE,     \* _detect_cross_channel_spam was called
     stored |-> FALSE,      \* _record_message was called
     deletes |-> 0,         \* message.delete() calls
     roleCalls |-> 0,       \* member.add_roles() calls
     assigned |-> "none",   \* what _assign_quarantine_role returned
     granted |-> FALSE,     \* _assign_quarantine_role returned True
     purges |-> 0,          \* channel.purge() calls
     at |-> 0,              \* position in PurgeOrder of the pending purge
     visited |-> <<>>,      \* the channels _purge_channel was called for
     purged |-> <<>>,       \* the channels channel.purge() was called on
     results |-> <<>>,      \* what the purge calls contributed
     deleted |-> 0,         \* deleted_count
     sent |-> 0,            \* interaction.response.send_message() calls
     deferred |-> FALSE,    \* interaction.response.defer() was called
     ephemeral |-> FALSE,   \* the response was sent or deferred ephemeral
     followups |-> 0,       \* interaction.followup.send() calls
     notice |-> "none",     \* which follow-up message was sent
     reported |-> -1]       \* the deleted count of the success notice

\* The handlers suspended at an await.
Pending == {i \in 1..Len(runs) : runs[i].pc \notin {"done", "failed"}}

\* A new event is taken in while the bound allows.
Admit == Len(runs) < MaxRuns

\* Mutant of ClearHistory: the newest record of the member is left.
ClearAllButNewest(h, member) ==
    IF member \in DOMAIN h THEN Put(h, member, LastN(h[member], 1)) ELSE h

\* Mutant of ClearHistory: the entry is left in place.
ClearNothing(h, member) == h

\* Mutant of ClearHistory: the whole store is emptied.
ClearWholeStore(h, member) == IF member \in DOMAIN h THEN EmptyHistory ELSE h

\* The clear step: if member.id in self.message_history: del ...
ClearHistory(h, member) == IF member \in DOMAIN h THEN Del(h, member) ELSE h

\* _purge_member_messages from position k on, up to the next purge call:
\* the channels up to there are visited, the one at NextPurge(k) is sent
\* the call.  Past the last channel the caller clears the history; the
\* automatic run ends, the command sends its success notice and waits
\* for the send to return.
PurgeFrom(r, k) ==
    IF NextPurge(k) <= Len(PurgeOrder)
    THEN [r EXCEPT !.pc = "purge", !.at = NextPurge(k), !.purges = @ + 1,
                   !.visited = @ \o SubSeq(PurgeOrder, k, NextPurge(k)),
                   !.purged = Append(@, PurgeOrder[NextPurge(k)])]
    ELSE IF r.kind = "cmd"
         THEN [r EXCEPT !.pc = "followup", !.at = NextPurge(k),
                        !.visited = @ \o SubSeq(PurgeOrder, k, Len(PurgeOrder)),
                        !.followups = @ + 1, !.notice = "success",
                        !.reported = r.deleted]
         ELSE [r EXCEPT !.pc = "done", !.at = NextPurge(k),
                        !.visited = @ \o SubSeq(PurgeOrder, k, Len(PurgeOrder))]

\* Mutant of RoleFailed: the failed assignment is taken for a success by
\* the clear step.
RoleFailedTakenAsGranted(r) ==
    IF r.kind = "cmd"
    THEN [r EXCEPT !.assigned = "False", !.pc = "followup", !.followups = @ + 1,
                   !.notice = "failure", !.granted = TRUE]
    ELSE [r EXCEPT !.assigned = "False", !.pc = "done", !.granted = TRUE]

\* _assign_quarantine_role returned False: _handle_quarantine returns, the
\* command sends its failure notice and waits for the send to return.
RoleFailed(r) ==
    IF r.kind = "cmd"
    THEN [r EXCEPT !.assigned = "False", !.pc = "followup", !.followups = @ + 1,
                   !.notice = "failure"]
    ELSE [r EXCEPT !.assigned = "False", !.pc = "done"]

\* Mutant of AssignRole: the role is not looked up in the guild.
AssignRoleWithoutLookup(r, c) ==
    IF c.quarantineRole = 0
    THEN RoleFailed(r)
    ELSE [r EXCEPT !.pc = "add_role", !.roleCalls = @ + 1]

\* _assign_quarantine_role up to its await: False at once when the role
\* is not configured or not in the guild, else the add_roles call.
AssignRole(r, c) ==
    IF c.quarantineRole = 0 \/ ~c.roleInGuild
    THEN RoleFailed(r)
    ELSE [r EXCEPT !.pc = "add_role", !.roleCalls = @ + 1]

\* _handle_quarantine up to its first await, message.delete().
HandleQuarantine(r, reason) ==
    [r EXCEPT !.trigger = reason, !.started = @ + 1, !.pc = "delete",
              !.deletes = @ + 1]

\* Mutant of Ignored: direct messages are not ignored.
IgnoredBotsOnly(m) == m.bot

\* message.author.bot or message.guild is None
Ignored(m) == m.bot \/ ~m.guild

\* Mutant of HoneypotHit: the channel is compared with the wrong identifier.
HoneypotHitWrongId(m, c) == m.channel = c.quarantineRole /\ c.quarantineRole # 0

\* Mutant of HoneypotHit: the channel id is not tested against 0.
HoneypotHitUnconfigured(m, c) == m.channel = c.honeypot

\* The message is in the configured honeypot channel.
HoneypotHit(m, c) == m.channel = c.honeypot /\ c.honeypot # 0

\* Mutant of OnMessageRun: no return after the spam quarantine, so that the
\* message is recorded as well.
OnMessageRunNoReturn(m, spam, c) ==
    LET r == NewRun("msg", m.member, m.bot, m.guild, m.channel, m.content, 0)
    IN  IF Ignored(m) THEN r
        ELSE IF HoneypotHit(m, c) THEN HandleQuarantine(r, "honeypot")
        ELSE IF spam
             THEN HandleQuarantine([r EXCEPT !.checked = TRUE, !.stored = TRUE],
                                   "spam")
        ELSE [r EXCEPT !.checked = TRUE, !.stored = TRUE]

\* on_message(m), up to its first await or its return; spam is the answer
\* of _detect_cross_channel_spam for m, asked for after the honeypot check.
OnMessageRun(m, spam, c) ==
    LET r == NewRun("msg", m.member, m.bot, m.guild, m.channel, m.content, 0)
    IN  IF Ignored(m) THEN r
        ELSE IF HoneypotHit(m, c) THEN HandleQuarantine(r, "honeypot")
        ELSE IF spam
             THEN HandleQuarantine([r EXCEPT !.checked = TRUE], "spam")
        ELSE [r EXCEPT !.checked = TRUE, !.stored = TRUE]

\* on_message up to its first await or its return.
OnMessageCall(m) ==
    /\ LET spam == DetectCrossChannelSpam(history, m.member, m.content,
                                          m.channel, cfg)
           r == OnMessageRun(m, spam, cfg)
           checked == IF r.checked
                      THEN StoreAfterDetect(history, m.member, m.content, cfg)
                      ELSE history
       IN  /\ runs' = Append(runs, r)
           /\ history' = IF r.stored
                         THEN RecordMessage(checked, m.member, m.content,
                                            m.channel, clock)
                         ELSE checked
    /\ last' = Idle
    /\ UNCHANGED <<workshop, starboard, role_assignment, cfg, clock, recorded, feed, cand, cleanup_task, verdict>>

OnMessage(m) == Admit /\ OnMessageCall(m)

\* Mutant of DeleteReturns: NotFound is not caught and ends the handler.
DeleteReturnsNotFoundRaises(i, outcome) ==
    /\ runs[i].pc = "delete"
    /\ runs' = [runs EXCEPT ![i] = IF outcome = "NotFound"
                                   THEN [@ EXCEPT !.pc = "failed"]
                                   ELSE AssignRole(@, cfg)]
    /\ last' = Idle
    /\ UNCHANGED <<workshop, starboard, role_assignment, cfg, history, clock, recorded, feed, cand,
                   cleanup_task, verdict>>

\* message.delete() returns or raises Forbidden / NotFound, which
\* _handle_quarantine ignores; the role assignment follows.
DeleteReturns(i, outcome) ==
    /\ runs[i].pc = "delete"
    /\ runs' = [runs EXCEPT ![i] = AssignRole(@, cfg)]
    /\ last' = Idle
    /\ UNCHANGED <<workshop, starboard, role_assignment, cfg, history, clock, recorded, feed, cand,
                   cleanup_task, verdict>>

\* The run after member.add_roles() returned (True, then the purge), or
\* raised Forbidden (caught: False), or raised NotFound (not caught: the
\* error leaves the handler).
AfterAddRole(r, outcome) ==
    CASE outcome = "ok" ->
            PurgeFrom([r EXCEPT !.assigned = "True", !.granted = TRUE], 1)
      [] outcome = "Forbidden" -> RoleFailed(r)
      [] OTHER -> [r EXCEPT !.assigned = "raised", !.pc = "failed"]

\* Mutant of ClearIfPurged: the history is cleared when the role assignment
\* failed as well.
ClearWhenReturned(h, r) ==
    IF r.pc # "purge" THEN ClearHistory(h, r.member) ELSE h

\* Mutant of ClearIfPurged: the history is cleared only when a message was
\* purged.
ClearIfAnyDeleted(h, r) ==
    IF r.granted /\ r.pc # "purge" /\ r.deleted > 0
    THEN ClearHistory(h, r.member)
    ELSE h

\* The history is cleared in the step in which the purge loop ends.
ClearIfPurged(h, r) ==
    IF r.granted /\ r.pc # "purge" THEN ClearHistory(h, r.member) ELSE h

AddRoleReturns(i, outcome) ==
    /\ runs[i].pc = "add_role"
    /\ runs' = [runs EXCEPT ![i] = AfterAddRole(@, outcome)]
    /\ history' = ClearIfPurged(history, runs'[i])
    /\ last' = Idle
    /\ UNCHANGED <<workshop, starboard, role_assignment, cfg, clock, recorded, feed, cand, cleanup_task, verdict>>

\* The run after channel.purge() returned n deleted messages, or raised
\* Forbidden or HTTPException (n = 0): the count is added and the next
\* channel follows.
\* Mutant of AfterPurge: the count of the last channel replaces the total.
AfterPurgeLastOnly(r, n) ==
    PurgeFrom([r EXCEPT !.deleted = n, !.results = Append(@, n)], r.at + 1)

AfterPurge(r, n) ==
    PurgeFrom([r EXCEPT !.deleted = @ + n, !.results = Append(@, n)], r.at + 1)

\* Mutant of PurgeReturns: a purge call that raises ends the loop.
PurgeReturnsAbortsOnError(i, outcome, n) ==
    /\ runs[i].pc = "purge"
    /\ outcome = "ok" \/ n = 0
    /\ runs' = [runs EXCEPT ![i] = IF outcome = "ok" THEN AfterPurge(@, n)
                                   ELSE PurgeFrom(@, Len(PurgeOrder) + 1)]
    /\ history' = ClearIfPurged(history, runs'[i])
    /\ last' = Idle
    /\ UNCHANGED <<workshop, starboard, role_assignment, cfg, clock, recorded, feed, cand, cleanup_task, verdict>>

\* Mutant of PurgeReturns: the clear is del self.message_history[member.id]
\* without the membership test, so that it raises KeyError when the entry
\* is gone.
PurgeReturnsUnguardedClear(i, outcome, n) ==
    /\ runs[i].pc = "purge"
    /\ outcome = "ok" \/ n = 0
    /\ runs' = [runs EXCEPT ![i] =
                  IF AfterPurge(@, n).pc # "purge" /\ @.member \notin DOMAIN history
                  THEN [AfterPurge(@, n) EXCEPT !.pc = "failed",
                                                !.followups = runs[i].followups,
                                                !.notice = runs[i].notice]
                  ELSE AfterPurge(@, n)]
    /\ history' = ClearIfPurged(history, runs'[i])
    /\ last' = Idle
    /\ UNCHANGED <<workshop, starboard, role_assignment, cfg, clock, recorded, feed, cand, cleanup_task, verdict>>

PurgeReturns(i, outcome, n) ==
    /\ runs[i].pc = "purge"
    /\ outcome = "ok" \/ n = 0
    /\ runs' = [runs EXCEPT ![i] = AfterPurge(@, n)]
    /\ history' = ClearIfPurged(history, runs'[i])
    /\ last' = Idle
    /\ UNCHANGED <<workshop, starboard, role_assignment, cfg, clock, recorded, feed, cand, cleanup_task, verdict>>

\* quarantine_command, up to its first await: the three refusals answer
\* at once, otherwise the response is deferred.
CommandRun(inv, c) ==
    LET r == NewRun("cmd", inv[2], inv[3], TRUE, 0, <<>>, inv[1])
    IN  IF ~IsStaff(inv[1], c)
        THEN [r EXCEPT !.sent = @ + 1, !.ephemeral = TRUE, !.pc = "send"]
        ELSE IF inv[3]
        THEN [r EXCEPT !.sent = @ + 1, !.ephemeral = TRUE, !.pc = "send"]
        ELSE IF inv[2] = inv[1]
        THEN [r EXCEPT !.sent = @ + 1, !.ephemeral = TRUE, !.pc = "send"]
        ELSE [r EXCEPT !.deferred = TRUE, !.ephemeral = TRUE, !.pc = "defer"]

CommandCall(inv) ==
    /\ runs' = Append(runs, CommandRun(inv, cfg))
    /\ last' = Idle
    /\ UNCHANGED <<workshop, starboard, role_assignment, cfg, history, clock, recorded, feed, cand,
                   cleanup_task, verdict>>

Command(inv) == Admit /\ CommandCall(inv)

\* interaction.response.defer() returns; the role assignment follows.
DeferReturns(i) ==
    /\ runs[i].pc = "defer"
    /\ runs' = [runs EXCEPT ![i] = AssignRole(@, cfg)]
    /\ last' = Idle
    /\ UNCHANGED <<workshop, starboard, role_assignment, cfg, history, clock, recorded, feed, cand,
                   cleanup_task, verdict>>

\* interaction.response.send_message() or interaction.followup.send()
\* returns; the command returns.
ReplyReturns(i) ==
    /\ runs[i].pc \in {"send", "followup"}
    /\ runs' = [runs EXCEPT ![i] = [@ EXCEPT !.pc = "done"]]
    /\ last' = Idle
    /\ UNCHANGED <<workshop, starboard, role_assignment, cfg, history, clock, recorded, feed, cand,
                   cleanup_task, verdict>>

\* The configurations: the defaults with the quarantine role set up; a
\* honeypot and a channel threshold of 2; the same with no quarantine role
\* and no staff role configured; a quarantine role that is not in the guild.
MainCfgs ==
    { [DefaultCfg EXCEPT !.quarantineRole = QuarantineRole, !.roleInGuild = TRUE,
                         !.staffRole = StaffRole],
      [DefaultCfg EXCEPT !.honeypot = HoneypotChannel, !.channelThreshold = 2,
                         !.quarantineRole = QuarantineRole, !.roleInGuild = TRUE,
                         !.staffRole = StaffRole],
      [DefaultCfg EXCEPT !.honeypot = HoneypotChannel, !.channelThreshold = 2],
      [DefaultCfg EXCEPT !.channelThreshold = 2,
                         !.quarantineRole = QuarantineRole,
                         !.staffRole = StaffRole] }

MainInit ==
    /\ OtherCogsIdle
    /\ cfg \in MainCfgs
    /\ history = EmptyHistory
    /\ clock = 0
    /\ runs = NoRuns
    /\ recorded = EmptyHistory
    /\ feed = <<>>
    /\ cand = <<>>
    /\ verdict = {}
    /\ cleanup_task = CreateTask(0)
    /\ last = Idle

Next ==
    \/ \E m \in MsgInputs : OnMessage(m)
    \/ \E inv \in CmdInputs : Command(inv)
    \/ \E i \in 1..Len(runs), outcome \in {"ok", "Forbidden", "NotFound"} :
          DeleteReturns(i, outcome)
    \/ \E i \in 1..Len(runs) : DeferReturns(i)
    \/ \E i \in 1..Len(runs) : ReplyReturns(i)
    \/ \E i \in 1..Len(runs), outcome \in {"ok", "Forbidden", "NotFound"} :
          AddRoleReturns(i, outcome)
    \/ \E i \in 1..Len(runs), outcome \in {"ok", "Forbidden", "HTTPException"},
          n \in {0, 1} : PurgeReturns(i, outcome, n)
    \/ TickBy(MESSAGE_HISTORY_SECONDS, MaxTime)
    \/ Sweep

Spec == MainInit /\ [][Next]_vars

----------------------------------------------------------------------------
(* Scenario 6: messages that arrive one after the other, each when the     *)
(* handler of the one before has ended, over more than a retention window. *)

MaxPosts == 2

LongLength == 271

\* A message longer than the stored 200 characters.
LongText == [i \in 1..LongLength |-> IF i = 1 THEN "!" ELSE "a"]

\* Member 1 posts in the channels 0 to 2; member 3 is staff.
PostInputs ==
    [member : {1}, bot : {FALSE}, guild : {TRUE}, channel : {0, 1},
     content : {SpamText}]
    \cup [member : {1}, bot : {FALSE}, guild : {TRUE}, channel : {1, 2},
          content : {LongText}]
    \cup [member : {3}, bot : {FALSE}, guild : {TRUE},
          channel : {HoneypotChannel}, content : {ShortText}]

\* The roles set up and SPAM_CHANNEL_THRESHOLD set to two channels, without
\* and with a honeypot channel.
PostCfgs ==
    { [DefaultCfg EXCEPT !.quarantineRole = QuarantineRole, !.roleInGuild = TRUE,
                         !.staffRole = StaffRole, !.channelThreshold = 2],
      [DefaultCfg EXCEPT !.honeypot = HoneypotChannel,
                         !.quarantineRole = QuarantineRole, !.roleInGuild = TRUE,
                         !.staffRole = StaffRole, !.channelThreshold = 2] }

PostsInit ==
    /\ OtherCogsIdle
    /\ cfg \in PostCfgs
    /\ history = EmptyHistory
    /\ clock = 0
    /\ runs = NoRuns
    /\ recorded = EmptyHistory
    /\ feed = <<>>
    /\ cand = <<>>
    /\ verdict = {}
    /\ cleanup_task = CreateTask(0)
    /\ last = Idle

Post(m) ==
    /\ Len(runs) < MaxPosts
    /\ Pending = {}
    /\ OnMessageCall(m)

\* The sweeps that the task started at time 0 has run by the time now,
\* all at once: the last one subsumes the ones before it.
SweptBy(h, now) ==
    IF now < CLEANUP_INITIAL_DELAY THEN h
    ELSE CleanupOldMessages(h,
             now - ((now - CLEANUP_INITIAL_DELAY) % CLEANUP_INTERVAL_SECONDS))

\* Time passes by d seconds while no handler runs, and the sweeper task
\* runs its cycles on schedule; each wait is taken once at most.
Elapse(d) ==
    /\ Pending = {}
    /\ clock < d
    /\ clock' = clock + d
    /\ history' = SweptBy(history, clock')
    /\ last' = Idle
    /\ UNCHANGED <<workshop, starboard, role_assignment, cfg, runs, recorded, feed, cand, cleanup_task, verdict>>

\* Just past the first sweep, and just past one retention window.
Waits == {CLEANUP_INITIAL_DELAY + 1, MESSAGE_HISTORY_SECONDS + 1}

PostsNext ==
    \/ \E m \in PostInputs : Post(m)
    \/ \E i \in 1..Len(runs), outcome \in {"ok", "Forbidden"} :
          DeleteReturns(i, outcome)
    \/ \E i \in 1..Len(runs), outcome \in {"ok", "Forbidden"} :
          AddRoleReturns(i, outcome)
    \/ \E i \in 1..Len(runs), outcome \in {"ok", "Forbidden"},
          n \in {0, 1} : PurgeReturns(i, outcome, n)
    \/ \E d \in Waits : Elapse(d)

SpecPosts == PostsInit /\ [][PostsNext]_vars

----------------------------------------------------------------------------
(* Scenario 7: two members whose events interleave: the messages of        *)
(* member 1 reach the channel threshold, member 2 posts, a staff member    *)
(* runs /quarantine on member 1.                                           *)

MaxEvents == 3

FrameMsgs ==
    [member : {1}, bot : {FALSE}, guild : {TRUE}, channel : {1, 2},
     content : {SpamText}]
    \cup [member : {2}, bot : {FALSE}, guild : {TRUE}, channel : {1},
          content : {SpamText}]

FrameCmds == {<<3, 1, FALSE>>}

FrameInit ==
    /\ OtherCogsIdle
    /\ cfg = [DefaultCfg EXCEPT !.quarantineRole = QuarantineRole,
                                !.roleInGuild = TRUE, !.staffRole = StaffRole,
                                !.channelThreshold = 2]
    /\ history = EmptyHistory
    /\ clock = 0
    /\ runs = NoRuns
    /\ recorded = EmptyHistory
    /\ feed = <<>>
    /\ cand = <<>>
    /\ verdict = {}
    /\ cleanup_task = CreateTask(0)
    /\ last = Idle

Event(m) == Len(runs) < MaxEvents /\ OnMessageCall(m)

Invocation(inv) == Len(runs) < MaxEvents /\ CommandCall(inv)

FrameNext ==
    \/ \E m \in FrameMsgs : Event(m)
    \/ \E inv \in FrameCmds : Invocation(inv)
    \/ \E i \in 1..Len(runs), outcome \in {"ok", "Forbidden"} :
          DeleteReturns(i, outcome)
    \/ \E i \in 1..Len(runs) : DeferReturns(i)
    \/ \E i \in 1..Len(runs) : ReplyReturns(i)
    \/ \E i \in 1..Len(runs), outcome \in {"ok", "Forbidden"} :
          AddRoleReturns(i, outcome)
    \/ \E i \in 1..Len(runs), outcome \in {"ok", "Forbidden"},
          n \in {0, 1} : PurgeReturns(i, outcome, n)

SpecFrame == FrameInit /\ [][FrameNext]_vars

----------------------------------------------------------------------------
(* Scenario 8: one user's sequence under records past the cap, sweeps and  *)
(* quarantine-clears; recorded is the log of the records appended.         *)

\* Time passes between bursts of this many records.
OrderBurst == MAX_MESSAGES_PER_USER \div 2 + 1

OrderInit ==
    /\ OtherCogsIdle
    /\ cfg = DefaultCfg
    /\ history = EmptyHistory
    /\ clock = 0
    /\ runs = NoRuns
    /\ recorded = EmptyHistory
    /\ feed = <<>>
    /\ cand = <<>>
    /\ verdict = {}
    /\ cleanup_task = CreateTask(0)
    /\ last = Idle

\* The log of user u.
LogOf(u) == IF u \in DOMAIN recorded THEN recorded[u] ELSE <<>>

\* One call of _record_message for user 1 at the current time.
OrderRecord ==
    /\ Len(LogOf(1)) < MaxCalls
    /\ history' = RecordMessage(history, 1, <<"a">>, 1, clock)
    /\ recorded' = Put(recorded, 1,
                       Append(LogOf(1), MessageRecord(<<"a">>, 1, clock)))
    /\ last' = [op |-> "record", user |-> 1]
    /\ UNCHANGED <<workshop, starboard, role_assignment, cfg, clock, runs, feed, cand, cleanup_task, verdict>>

\* Half a retention window passes, between two bursts of records.
OrderTick ==
    /\ Len(LogOf(1)) % OrderBurst = 0
    /\ Tick

\* The clear step of a quarantine of user 1.
OrderClear ==
    /\ 1 \in DOMAIN history
    /\ history' = ClearHistory(history, 1)
    /\ last' = [op |-> "clear", user |-> 1]
    /\ UNCHANGED <<workshop, starboard, role_assignment, cfg, clock, runs, recorded, feed, cand, cleanup_task,
                   verdict>>

OrderNext == OrderRecord \/ OrderTick \/ Sweep \/ OrderClear

SpecOrder == OrderInit /\ [][OrderNext]_vars

----------------------------------------------------------------------------
(* Scenario 9: WorkshopCog.  The voice-state updates of one member are     *)
(* dispatched in order, each to its own invocation of the handler          *)
(* on_voice_state_update; an invocation runs to its first await at once    *)
(* and the invocations then advance in any order, one await at a time.     *)

MaxUpdates == 3

\* What a Discord call of the workshop handler can end with.
WorkshopOutcomes == {"ok", "Forbidden"}

\* The branch on_voice_state_update takes, as the await it stops at first:
\* a join (before not in the workshop voice channel, after in it) goes to
\* member.add_roles, a leave (the opposite) to
\* channel.set_permissions(member, overwrite=None), any other update ends.
FirstAwait(before, after) ==
    IF before # "workshop" /\ after = "workshop" THEN "add_roles"
    ELSE IF before = "workshop" /\ after # "workshop" THEN "remove_overwrite"
    ELSE "done"

WorkshopInit ==
    /\ OtherCogsIdle
    /\ cfg = DefaultCfg
    /\ history = EmptyHistory
    /\ clock = 0
    /\ runs = NoRuns
    /\ recorded = EmptyHistory
    /\ feed = <<>>
    /\ cand = <<>>
    /\ verdict = {}
    /\ cleanup_task = NoTask
    /\ last = Idle

\* The cogs and ghosts a step of the workshop cog leaves alone.
WorkshopFrame ==
    UNCHANGED <<cfg, history, clock, runs, recorded, feed, cand, verdict,
                cleanup_task, last, starboard, role_assignment>>

\* The member's voice state changes to `after` (a move, or with the same
\* channel a mute or the like) and the handler is invoked with the states
\* before and after, running up to its first await.
VoiceStateUpdate(after) ==
    /\ Len(workshop.handlers) < MaxUpdates
    /\ workshop' =
         [workshop EXCEPT
            !.channel = after,
            !.handlers = Append(@, [before |-> workshop.channel,
                                    after |-> after,
                                    pc |-> FirstAwait(workshop.channel,
                                                      after)])]
    /\ WorkshopFrame

\* await member.add_roles(...) of invocation i returns: the role is held and
\* the handler goes on to channel.set_permissions(member, view_channel=True);
\* an exception ends the handler.
GrantRoleReturns(i, outcome) ==
    /\ i \in DOMAIN workshop.handlers
    /\ workshop.handlers[i].pc = "add_roles"
    /\ workshop' =
         IF outcome = "ok"
         THEN [workshop EXCEPT !.role = TRUE,
                               !.handlers[i].pc = "set_permissions"]
         ELSE [workshop EXCEPT !.handlers[i].pc = "raised"]
    /\ WorkshopFrame

\* await channel.set_permissions(member, view_channel=True) returns.
GrantViewReturns(i, outcome) ==
    /\ i \in DOMAIN workshop.handlers
    /\ workshop.handlers[i].pc = "set_permissions"
    /\ workshop' =
         IF outcome = "ok"
         THEN [workshop EXCEPT !.overwrite = TRUE,
                               !.handlers[i].pc = "done"]
         ELSE [workshop EXCEPT !.handlers[i].pc = "raised"]
    /\ WorkshopFrame

\* await channel.set_permissions(member, overwrite=None) returns.
RemoveOverwriteReturns(i, outcome) ==
    /\ i \in DOMAIN workshop.handlers
    /\ workshop.handlers[i].pc = "remove_overwrite"
    /\ workshop' =
         IF outcome = "ok"
         THEN [workshop EXCEPT !.overwrite = FALSE,
                               !.handlers[i].pc = "done"]
         ELSE [workshop EXCEPT !.handlers[i].pc = "raised"]
    /\ WorkshopFrame

WorkshopNext ==
    \/ \E after \in VoiceStates : VoiceStateUpdate(after)
    \/ \E i \in 1..MaxUpdates, outcome \in WorkshopOutcomes :
         \/ GrantRoleReturns(i, outcome)
         \/ GrantViewReturns(i, outcome)
         \/ RemoveOverwriteReturns(i, outcome)

SpecWorkshop == WorkshopInit /\ [][WorkshopNext]_vars

----------------------------------------------------------------------------
(* Scenario 10: StarboardCog.  Reaction events are dispatched in order,    *)
(* each to its own invocation of on_raw_reaction_add, which runs to its    *)
(* first await at once; the invocations then advance in any order.         *)

MaxReactions == 3

REACTION_LIMIT == 5

\* The two embed colours the posts alternate between.
EMBED_GOLD == 16769024

EMBED_BLUE == 3375061

\* The messages that get reactions, by id.
SourceMessages == {1, 2}

\* What a Discord call of the starboard handler can end with.
StarboardOutcomes == {"ok", "NotFound"}

\* The number of star entries message.reactions can hold when fetched.
FetchedStars == {REACTION_LIMIT - 1, REACTION_LIMIT}

\* The payloads of the reaction events: the channel reacted in (a source
\* channel or the starboard channel), whether the reacting member is the bot,
\* the message and the emoji.
Payloads ==
    [in_starboard : BOOLEAN, from_self : BOOLEAN,
     message_id : SourceMessages, emoji : {"star", "other"}]

\* The cog after on_ready has read a starboard channel that is empty, or one
\* that holds a post of source message 2: its id is among the starred ids and
\* the post is _last_message.
StarboardReady ==
    { StarboardIdle,
      [StarboardIdle EXCEPT
         !._starred_message_ids = {2},
         !._last_message = <<[color |-> EMBED_GOLD]>>,
         !.posts = <<[source |-> 2, color |-> EMBED_GOLD]>>] }

StarboardInit ==
    /\ workshop = WorkshopIdle
    /\ role_assignment = RoleAssignmentIdle
    /\ starboard \in StarboardReady
    /\ cfg = DefaultCfg
    /\ history = EmptyHistory
    /\ clock = 0
    /\ runs = NoRuns
    /\ recorded = EmptyHistory
    /\ feed = <<>>
    /\ cand = <<>>
    /\ verdict = {}
    /\ cleanup_task = NoTask
    /\ last = Idle

\* The cogs and ghosts a step of the starboard cog leaves alone.
StarboardFrame ==
    UNCHANGED <<cfg, history, clock, runs, recorded, feed, cand, verdict,
                cleanup_task, last, workshop, role_assignment>>

\* The four early returns of on_raw_reaction_add: the reaction is in the
\* starboard channel, is the bot's own, is on a message already among the
\* starred ids, or is not a star.  Otherwise the handler stops at
\* channel.fetch_message.
Screen(starred, payload) ==
    IF payload.in_starboard THEN "done"
    ELSE IF payload.from_self THEN "done"
    ELSE IF payload.message_id \in starred THEN "done"
    ELSE IF payload.emoji # "star" THEN "done"
    ELSE "fetch_message"

\* A reaction is added and the handler is invoked with its payload.
ReactionAdd(payload) ==
    /\ Len(starboard.handlers) < MaxReactions
    /\ starboard' =
         [starboard EXCEPT
            !.handlers =
               Append(@, [payload |-> payload,
                          pc |-> Screen(starboard._starred_message_ids,
                                        payload),
                          color |-> 0])]
    /\ StarboardFrame

\* The colour of the next post: the other one than _last_message's.
NextColor(last_message) ==
    IF last_message[1].color = EMBED_GOLD THEN EMBED_BLUE ELSE EMBED_GOLD

\* await channel.fetch_message(...) of invocation i returns a message with
\* `stars` star entries among its reactions.  Below the limit the handler
\* returns; otherwise it builds the embed (which reads _last_message.embeds
\* and raises when there is no last message), adds the id to the starred ids
\* and stops at starboard_channel.send.
FetchMessageReturns(i, outcome, stars) ==
    /\ i \in DOMAIN starboard.handlers
    /\ starboard.handlers[i].pc = "fetch_message"
    /\ starboard' =
         IF outcome # "ok"
         THEN [starboard EXCEPT !.handlers[i].pc = "raised"]
         ELSE IF stars < REACTION_LIMIT
         THEN [starboard EXCEPT !.handlers[i].pc = "done"]
         ELSE IF starboard._last_message = <<>>
         THEN [starboard EXCEPT !.handlers[i].pc = "raised"]
         ELSE [starboard EXCEPT
                 !._starred_message_ids =
                    @ \cup {starboard.handlers[i].payload.message_id},
                 !.handlers[i].color = NextColor(starboard._last_message),
                 !.handlers[i].pc = "send"]
    /\ StarboardFrame

\* await starboard_channel.send(...) of invocation i returns: the post is in
\* the starboard channel and becomes _last_message; the handler stops at
\* add_reaction.
SendReturns(i, outcome) ==
    /\ i \in DOMAIN starboard.handlers
    /\ starboard.handlers[i].pc = "send"
    /\ starboard' =
         IF outcome # "ok"
         THEN [starboard EXCEPT !.handlers[i].pc = "raised"]
         ELSE [starboard EXCEPT
                 !.posts =
                    Append(@, [source |->
                                 starboard.handlers[i].payload.message_id,
                               color |-> starboard.handlers[i].color]),
                 !._last_message = <<[color |-> starboard.handlers[i].color]>>,
                 !.handlers[i].pc = "add_reaction"]
    /\ StarboardFrame

\* await self._last_message.add_reaction(...) of invocation i returns.
AddReactionReturns(i, outcome) ==
    /\ i \in DOMAIN starboard.handlers
    /\ starboard.handlers[i].pc = "add_reaction"
    /\ starboard' =
         [starboard EXCEPT
            !.handlers[i].pc = IF outcome = "ok" THEN "done" ELSE "raised"]
    /\ StarboardFrame

StarboardNext ==
    \/ \E payload \in Payloads : ReactionAdd(payload)
    \/ \E i \in 1..MaxReactions, outcome \in StarboardOutcomes :
         \/ \E stars \in FetchedStars : FetchMessageReturns(i, outcome, stars)
         \/ SendReturns(i, outcome)
         \/ AddReactionReturns(i, outcome)

SpecStarboard == StarboardInit /\ [][StarboardNext]_vars

----------------------------------------------------------------------------
(* Scenario 11: RoleAssignmentCog.  The bot adds the cog, which registers  *)
(* its listeners and runs its cog_load; reactions of one member on the     *)
(* reaction-role messages are then dispatched, each to its own invocation  *)
(* of on_raw_reaction_add or on_raw_reaction_remove.                       *)

MaxRoleEvents == 2

\* ASSIGNABLE_ROLES (assignable_roles.json), in the shape the tests give it:
\* emoji -> name and message_id of the role.
ASSIGNABLE_ROLES ==
    [e \in {"one", "clipboard"} |->
       IF e = "one" THEN [name |-> "Modder", message_id |-> 1]
                    ELSE [name |-> "Jobs Board", message_id |-> 2]]

RoleEmojis == DOMAIN ASSIGNABLE_ROLES \cup {"other"}

\* The payloads of the reaction events.
RolePayloads ==
    [from_self : BOOLEAN, emoji : RoleEmojis, message_id : {1, 2}]

\* What a Discord call of the role handlers can end with.
RoleOutcomes == {"ok", "Forbidden"}

\* The cog_load of the cog, applied to the tasks created so far: the class
\* defines none, and the one it inherits from commands.Cog does nothing, so
\* no task is given to loop.create_task.
RoleAssignmentCogLoad(tasks) == tasks

RolesInit ==
    /\ OtherCogsIdle
    /\ cfg = DefaultCfg
    /\ history = EmptyHistory
    /\ clock = 0
    /\ runs = NoRuns
    /\ recorded = EmptyHistory
    /\ feed = <<>>
    /\ cand = <<>>
    /\ verdict = {}
    /\ cleanup_task = NoTask
    /\ last = Idle

\* The cogs and ghosts a step of the role assignment cog leaves alone.
RolesFrame ==
    UNCHANGED <<cfg, history, clock, runs, recorded, feed, cand, verdict,
                cleanup_task, last, workshop, starboard>>

\* ARKBot.add_cogs: await self.add_cog(RoleAssignmentCog(self)).
AddCog ==
    /\ ~role_assignment.loaded
    /\ role_assignment' =
         [role_assignment EXCEPT
            !.loaded = TRUE,
            !.tasks = RoleAssignmentCogLoad(@)]
    /\ RolesFrame

\* The early returns the two handlers share: the emoji is no assignable
\* role, or the role belongs to another message.
WrongReaction(payload) ==
    \/ payload.emoji \notin DOMAIN ASSIGNABLE_ROLES
    \/ payload.message_id # ASSIGNABLE_ROLES[payload.emoji].message_id

\* on_raw_reaction_add is invoked: the bot's own reactions and the wrong
\* ones are ignored, otherwise the handler stops at member.add_roles.
RoleReactionAdd(payload) ==
    /\ role_assignment.loaded
    /\ Len(role_assignment.handlers) < MaxRoleEvents
    /\ role_assignment' =
         [role_assignment EXCEPT
            !.handlers =
               Append(@, [payload |-> payload,
                          pc |-> IF payload.from_self \/ WrongReaction(payload)
                                 THEN "done" ELSE "add_roles"])]
    /\ RolesFrame

\* on_raw_reaction_remove is invoked (its payload carries no member): the
\* wrong reactions are ignored, otherwise the handler stops at fetch_guild.
RoleReactionRemove(payload) ==
    /\ role_assignment.loaded
    /\ ~payload.from_self
    /\ Len(role_assignment.handlers) < MaxRoleEvents
    /\ role_assignment' =
         [role_assignment EXCEPT
            !.handlers =
               Append(@, [payload |-> payload,
                          pc |-> IF WrongReaction(payload)
                                 THEN "done" ELSE "fetch_guild"])]
    /\ RolesFrame

\* Where a handler goes after its role call: to update_role_counts of the
\* ServerStatsCog for the roles Modder and Mapper when that cog is loaded.
AfterRoleCall(payload, stats_cog) ==
    IF ASSIGNABLE_ROLES[payload.emoji].name \in {"Modder", "Mapper"}
       /\ stats_cog
    THEN "update_role_counts" ELSE "done"

\* await payload.member.add_roles(...) of invocation i returns.
RoleAddReturns(i, outcome, stats_cog) ==
    /\ i \in DOMAIN role_assignment.handlers
    /\ role_assignment.handlers[i].pc = "add_roles"
    /\ role_assignment' =
         IF outcome # "ok"
         THEN [role_assignment EXCEPT !.handlers[i].pc = "raised"]
         ELSE [role_assignment EXCEPT
                 !.roles = @ \cup
                    {ASSIGNABLE_ROLES[role_assignment.handlers[i]
                                        .payload.emoji].name},
                 !.handlers[i].pc =
                    AfterRoleCall(role_assignment.handlers[i].payload,
                                  stats_cog)]
    /\ RolesFrame

\* await self.bot.fetch_guild(...) and await guild.fetch_member(...) of
\* invocation i return, one after the other.
RoleFetchReturns(i, outcome) ==
    /\ i \in DOMAIN role_assignment.handlers
    /\ role_assignment.handlers[i].pc \in {"fetch_guild", "fetch_member"}
    /\ role_assignment' =
         [role_assignment EXCEPT
            !.handlers[i].pc =
               IF outcome # "ok" THEN "raised"
               ELSE IF @ = "fetch_guild" THEN "fetch_member"
               ELSE "remove_roles"]
    /\ RolesFrame

\* await member.remove_roles(...) of invocation i returns.
RoleRemoveReturns(i, outcome, stats_cog) ==
    /\ i \in DOMAIN role_assignment.handlers
    /\ role_assignment.handlers[i].pc = "remove_roles"
    /\ role_assignment' =
         IF outcome # "ok"
         THEN [role_assignment EXCEPT !.handlers[i].pc = "raised"]
         ELSE [role_assignment EXCEPT
                 !.roles = @ \
                    {ASSIGNABLE_ROLES[role_assignment.handlers[i]
                                        .payload.emoji].name},
                 !.handlers[i].pc =
                    AfterRoleCall(role_assignment.handlers[i].payload,
                                  stats_cog)]
    /\ RolesFrame

\* await server_stats_cog.update_role_counts() of invocation i returns.
UpdateRoleCountsReturns(i, outcome) ==
    /\ i \in DOMAIN role_assignment.handlers
    /\ role_assignment.handlers[i].pc = "update_role_counts"
    /\ role_assignment' =
         [role_assignment EXCEPT
            !.handlers[i].pc = IF outcome = "ok" THEN "done" ELSE "raised"]
    /\ RolesFrame

RolesNext ==
    \/ AddCog
    \/ \E payload \in RolePayloads :
         \/ RoleReactionAdd(payload)
         \/ RoleReactionRemove(payload)
    \/ \E i \in 1..MaxRoleEvents, outcome \in RoleOutcomes :
         \/ \E stats_cog \in BOOLEAN :
              \/ RoleAddReturns(i, outcome, stats_cog)
              \/ RoleRemoveReturns(i, outcome, stats_cog)
         \/ RoleFetchReturns(i, outcome)
         \/ UpdateRoleCountsReturns(i, outcome)

SpecRoles == RolesInit /\ [][RolesNext]_vars

\* The event loop runs every coroutine that can go on, and the bot adds its
\* cogs when it is ready.
RolesFairness ==
    /\ WF_vars(AddCog)
    /\ \A i \in 1..MaxRoleEvents :
         WF_vars(\E outcome \in RoleOutcomes, stats_cog \in BOOLEAN :
                   \/ RoleAddReturns(i, outcome, stats_cog)
                   \/ RoleRemoveReturns(i, outcome, stats_cog)
                   \/ RoleFetchReturns(i, outcome)
                   \/ UpdateRoleCountsReturns(i, outcome))

SpecRolesLive == SpecRoles /\ RolesFairness

----------------------------------------------------------------------------
(* Properties of the store (scenarios 2 and 3).                            *)

HistoryOf(h, u) == IF u \in DOMAIN h THEN h[u] ELSE <<>>

\* C1: once more than 50 records have been recorded for a user (no sweep,
\* no quarantine in between), the stored sequence is exactly the last 50
\* recorded ones, in the order of recording.
C1_CapKeepsNewestInOrder ==
    \A u \in DOMAIN recorded :
        Len(recorded[u]) > MAX_MESSAGES_PER_USER =>
            /\ Len(HistoryOf(history, u)) = MAX_MESSAGES_PER_USER
            /\ \A i \in 1..MAX_MESSAGES_PER_USER :
                  HistoryOf(history, u)[i] =
                     recorded[u][Len(recorded[u]) - MAX_MESSAGES_PER_USER + i]

C1_Witness ==
    \E u \in DOMAIN recorded :
        /\ Len(recorded[u]) >= MAX_MESSAGES_PER_USER + 2
        /\ Len(HistoryOf(history, u)) = MAX_MESSAGES_PER_USER

\* C2: every stored record has a lowercase content of at most 200
\* characters, whatever the content recorded.
C2_StoredContentLowerAndCapped ==
    \A e \in AllRecords(history) :
        LET content == history[e[1]][e[2]].content
        IN  /\ Len(content) <= MAX_CONTENT_LENGTH
            /\ Lower(content) = content

\* C3 as stated: a sweep removes exactly the records older than the
\* retention window (age > W), keeps the others in order, one exactly W old
\* included, and drops the users left with no record.
SweepOutcome(pre, post, now, keepAtWindow) ==
    /\ DOMAIN post \subseteq DOMAIN pre
    /\ \A u \in DOMAIN pre :
          LET old == pre[u]
              kept == {i \in 1..Len(old) :
                         \/ now - old[i].timestamp < MESSAGE_HISTORY_SECONDS
                         \/ /\ keepAtWindow
                            /\ now - old[i].timestamp = MESSAGE_HISTORY_SECONDS}
              new == HistoryOf(post, u)
          IN  /\ Len(new) = Cardinality(kept)
              /\ \A i \in kept : new[Cardinality({j \in kept : j <= i})] = old[i]
              /\ (u \in DOMAIN post) <=> (kept # {})

----------------------------------------------------------------------------
(* Properties of the detector (scenario 1).                                *)

Answered == verdict # {}

Answer == CHOOSE v \in verdict : TRUE

CandLower == Lower(Strip(cand.content))

\* The length ratio len(candidate) / len(record) lies in [0.5, 2.0].
RatioInRange(record) ==
    /\ Len(record.content) > 0
    /\ 2 * Len(CandLower) >= Len(record.content)
    /\ Len(CandLower) <= 2 * Len(record.content)

Similar(record) ==
    SimilarityAtLeast(CandLower, record.content, cfg.similarityPct)

CandHistory == HistoryOf(history, cand.user)

\* C5: the detector answers False when the trimmed candidate is empty, when
\* it is shorter than the minimum length, and when the user has no history,
\* whatever the channel, the history and the thresholds are.
C5_ShortCircuitsAnswerFalse ==
    (Answered /\ ~Examined(history, cfg, cand)) => Answer.spam = FALSE

\* A candidate below the minimum length whose text is recorded, as it is,
\* in enough other channels to count as spam.
C5_Witness ==
    /\ Answered
    /\ Strip(cand.content) # <<>>
    /\ Len(Strip(cand.content)) < cfg.minLength
    /\ Cardinality({CandHistory[k].channel_id : k \in 1..Len(CandHistory)}
                   \ {cand.channel}) + 1 >= cfg.channelThreshold
    /\ \A k \in 1..Len(CandHistory) : CandHistory[k].content = CandLower
    /\ Answer.spam = FALSE

\* The channels other than the candidate's with a record that matches it.
MatchedBySimilarity ==
    {CandHistory[k].channel_id : k \in
        {k \in 1..Len(CandHistory) :
            /\ CandHistory[k].channel_id # cand.channel
            /\ Similar(CandHistory[k])}}

MatchedInRange ==
    {CandHistory[k].channel_id : k \in
        {k \in 1..Len(CandHistory) :
            /\ CandHistory[k].channel_id # cand.channel
            /\ RatioInRange(CandHistory[k])
            /\ Similar(CandHistory[k])}}

\* C6 as stated: past the short-circuits the answer is True exactly when the
\* number of distinct other channels holding a record with similarity >=
\* threshold, plus one, reaches the channel threshold.
C6_SpamIffSimilarChannels ==
    (Answered /\ Examined(history, cfg, cand)) =>
        (Answer.spam <=>
            Cardinality(MatchedBySimilarity) + 1 >= cfg.channelThreshold)

\* C6 as amended: the same, where a record matches when its length ratio to
\* the candidate lies in [0.5, 2.0] and its similarity is >= the threshold.
C6_SpamIffMatchedChannels ==
    (Answered /\ Examined(history, cfg, cand)) =>
        (Answer.spam <=>
            Cardinality(MatchedInRange) + 1 >= cfg.channelThreshold)

\* Spam by exactly the threshold, with two matching records in one channel
\* and a matching record in the candidate's own channel.
C6_Witness ==
    /\ Answered
    /\ Examined(history, cfg, cand)
    /\ Answer.spam = TRUE
    /\ Cardinality(MatchedInRange) + 1 = cfg.channelThreshold
    /\ \E k \in 1..Len(CandHistory) :
          /\ CandHistory[k].channel_id = cand.channel
          /\ Similar(CandHistory[k])

\* C7: a record whose length ratio to the candidate is below 0.5 or above
\* 2.0, or whose content is empty, never puts its channel in the matched
\* set; a record at ratio exactly 0.5 or 2.0 is compared, and counts when
\* similar.
C7_LengthRatioGate ==
    Answered =>
        /\ \A ch \in Answer.channels :
              \E k \in 1..Len(CandHistory) :
                  /\ CandHistory[k].channel_id = ch
                  /\ RatioInRange(CandHistory[k])
        /\ Examined(history, cfg, cand) =>
              \A k \in 1..Len(CandHistory) :
                  ( /\ CandHistory[k].channel_id # cand.channel
                    /\ \/ 2 * Len(CandLower) = Len(CandHistory[k].content)
                       \/ Len(CandLower) = 2 * Len(CandHistory[k].content)
                    /\ Len(CandHistory[k].content) > 0
                    /\ Similar(CandHistory[k]) )
                  => CandHistory[k].channel_id \in Answer.channels

\* A similar record out of range left out, and one at ratio exactly 0.5
\* taken in.
C7_Witness ==
    /\ Answered
    /\ Examined(history, cfg, cand)
    /\ \E k \in 1..Len(CandHistory) :
          /\ ~RatioInRange(CandHistory[k])
          /\ Len(CandHistory[k].content) > 0
          /\ Similar(CandHistory[k])
          /\ CandHistory[k].channel_id \notin Answer.channels
          /\ CandHistory[k].channel_id # cand.channel
    /\ \E k \in 1..Len(CandHistory) :
          /\ 2 * Len(CandLower) = Len(CandHistory[k].content)
          /\ CandHistory[k].channel_id \in Answer.channels

----------------------------------------------------------------------------
(* Properties of on_message and of the whole cog (specification Spec).     *)

MsgRuns(rs) == {i \in 1..Len(rs) : rs[i].kind = "msg"}

\* C4: no user of message_history maps to an empty sequence, whatever the
\* interleaving of messages, sweeps and quarantines.
C4_NoEmptySequence == \A u \in DOMAIN history : history[u] # <<>>

\* A sweep has just dropped a user whose message had been recorded.
C4_Witness ==
    /\ last.op = "sweep"
    /\ last.users # {}
    /\ \E i \in MsgRuns(runs) :
          runs[i].stored /\ runs[i].member \in last.users
                         /\ runs[i].member \notin DOMAIN history

\* The step takes in a message: its handler is the new last run.
TakesMessage ==
    /\ Len(runs') = Len(runs) + 1
    /\ runs'[Len(runs')].kind = "msg"

TakenRun == runs'[Len(runs')]

\* message_history after the step is the one before with the record of
\* run r appended to its author's sequence (capped at 50).
AppendsRecordOf(r) ==
    LET old == HistoryOf(history, r.member)
        new == HistoryOf(history', r.member)
    IN  /\ DOMAIN history' = (DOMAIN history) \cup {r.member}
        /\ \A u \in (DOMAIN history) \ {r.member} : history'[u] = history[u]
        /\ Len(new) = Min(Len(old) + 1, MAX_MESSAGES_PER_USER)
        /\ new[Len(new)].channel_id = r.channel
        /\ new[Len(new)].timestamp = clock
        /\ new[Len(new)].content = Lower(Truncate(r.content, MAX_CONTENT_LENGTH))
        /\ Len(old) < MAX_MESSAGES_PER_USER => SubSeq(new, 1, Len(old)) = old

\* No sequence of message_history gains a record by the step.
AppendsNothing ==
    \A u \in DOMAIN history' :
        /\ u \in DOMAIN history
        /\ Len(history'[u]) <= Len(history[u])
        /\ \A k \in 1..Len(history'[u]) :
              \E j \in 1..Len(history[u]) : history'[u][k] = history[u][j]

\* C8: a message starts at most one quarantine, the honeypot check before
\* the spam check; it is appended to its author's history exactly when the
\* author is no bot, the message is in a guild and neither check fired; no
\* later step of a handler appends anything.
C8_OneQuarantineOrRecord ==
    [][ /\ \A i \in MsgRuns(runs') :
              /\ runs'[i].started <= 1
              /\ runs'[i].started = 1 <=> runs'[i].trigger # "none"
              /\ runs'[i].trigger = "honeypot" => ~runs'[i].checked
              /\ runs'[i].trigger = "spam" =>
                    (runs'[i].checked /\ runs'[i].channel # cfg.honeypot)
        /\ IF TakesMessage
           THEN IF ~TakenRun.bot /\ TakenRun.guild /\ TakenRun.started = 0
                THEN AppendsRecordOf(TakenRun)
                ELSE history' = history
           ELSE AppendsNothing ]_vars

\* A recorded message, and a message that the spam check caught, whose
\* quarantine failed at the role assignment, and that is not in the history.
C8_Witness ==
    \E i, j \in MsgRuns(runs) :
        /\ runs[i].stored /\ runs[i].started = 0
        /\ runs[j].trigger = "spam" /\ runs[j].pc = "done" /\ ~runs[j].granted
        /\ runs[j].deletes = 1
        /\ \A k \in 1..Len(HistoryOf(history, runs[j].member)) :
              history[runs[j].member][k].channel_id # runs[j].channel

\* C9: with a honeypot channel configured, every message of a non-bot
\* author in a guild in that channel starts a quarantine by the honeypot
\* check, whatever its content and the author's history, and the spam
\* check is not run for it.
C9_HoneypotAlwaysTriggers ==
    \A i \in MsgRuns(runs) :
        ( /\ cfg.honeypot # 0
          /\ ~runs[i].bot
          /\ runs[i].guild
          /\ runs[i].channel = cfg.honeypot )
        => /\ runs[i].trigger = "honeypot"
           /\ runs[i].started = 1
           /\ runs[i].deletes = 1
           /\ ~runs[i].checked

\* A short message (never spam) in the honeypot channel, by an author with
\* a recorded history.
C9_Witness ==
    \E i \in MsgRuns(runs) :
        /\ cfg.honeypot # 0
        /\ runs[i].channel = cfg.honeypot
        /\ runs[i].content = ShortText
        /\ runs[i].member \in DOMAIN history
        /\ runs[i].trigger = "honeypot"

\* C10: a message of a bot, or outside a guild, causes no delete, no role
\* assignment and no purge, and leaves message_history as it is.
C10_IgnoredMessagesDoNothing ==
    [][ /\ \A i \in MsgRuns(runs') :
              (runs'[i].bot \/ ~runs'[i].guild) =>
                  /\ runs'[i].pc = "done"
                  /\ runs'[i].started = 0
                  /\ runs'[i].deletes = 0
                  /\ runs'[i].roleCalls = 0
                  /\ runs'[i].purges = 0
        /\ (TakesMessage /\ (TakenRun.bot \/ ~TakenRun.guild)) =>
              history' = history ]_vars

\* A bot's message in the configured honeypot channel, and a direct message
\* of a member, both ignored.
C10_Witness ==
    \E i, j \in MsgRuns(runs) :
        /\ runs[i].bot /\ runs[i].channel = cfg.honeypot
        /\ ~runs[j].guild /\ ~runs[j].bot
        /\ runs[i].pc = "done" /\ runs[j].pc = "done"

----------------------------------------------------------------------------
(* Properties of the enforcement: _handle_quarantine, quarantine_command,  *)
(* _assign_quarantine_role and _purge_member_messages (specification Spec). *)

\* The runs that were there before the step.
Resumed(i) == i <= Len(runs)

\* C11: every run of _handle_quarantine sends message.delete() exactly
\* once, and before _assign_quarantine_role is entered; whatever the delete
\* call returns or raises, the step that resumes the run enters the role
\* assignment; the count stays 1 whatever the role assignment gives.
C11_DeleteOnceBeforeRole ==
    [][ \A i \in MsgRuns(runs') :
          /\ runs'[i].deletes = runs'[i].started
          /\ runs'[i].deletes <= 1
          /\ (runs'[i].roleCalls > 0 \/ runs'[i].assigned # "none") =>
                (Resumed(i) /\ runs[i].deletes = 1)
          /\ (Resumed(i) /\ runs[i].pc = "delete" /\ runs'[i] # runs[i]) =>
                runs'[i] = AssignRole(runs[i], cfg) ]_vars

\* Two runs of _handle_quarantine, one whose role assignment succeeded and
\* one whose add_roles call was refused: each has sent its one delete.
C11_Witness ==
    \E i, j \in MsgRuns(runs) :
        /\ runs[i].started = 1 /\ runs[i].assigned = "True"
        /\ runs[j].started = 1 /\ runs[j].assigned = "False"
        /\ runs[j].roleCalls = 1
        /\ runs[i].deletes = 1 /\ runs[j].deletes = 1

\* The step is a step of run i: it starts the run or resumes it.
StepOf(i) == ~Resumed(i) \/ runs'[i] # runs[i]

\* The run is an enforcement: _handle_quarantine or quarantine_command.
IsEnforcement(r) == r.kind = "cmd" \/ r.started = 1

\* C12: a run whose role assignment failed (role not configured, role not
\* in the guild, add_roles refused) has sent no purge call and visited no
\* channel, and no step of an enforcement run without a successful role
\* assignment changes message_history: the target's history is what it was.
C12_RoleFailureChangesNothing ==
    [][ \A i \in 1..Len(runs') :
          /\ runs'[i].assigned = "False" =>
                /\ runs'[i].purges = 0
                /\ runs'[i].visited = <<>>
                /\ runs'[i].results = <<>>
          /\ (IsEnforcement(runs'[i]) /\ ~runs'[i].granted /\ StepOf(i)) =>
                history' = history ]_vars

\* A spam-triggered run whose add_roles call was refused has returned, and
\* the author's record is still in the history.
C12_Witness ==
    \E i \in MsgRuns(runs) :
        /\ runs[i].trigger = "spam"
        /\ runs[i].assigned = "False"
        /\ runs[i].roleCalls = 1
        /\ runs[i].pc = "done"
        /\ runs[i].member \in DOMAIN history

\* The step completes run i: its handler returns.
Completes(i) ==
    /\ runs'[i].pc = "done"
    /\ Resumed(i) => runs[i].pc # "done"

\* The step ends the purge loop of run i, whose role assignment succeeded.
EndsPurge(i) ==
    /\ Resumed(i)
    /\ runs[i].pc \in {"add_role", "purge"}
    /\ runs'[i].pc \in {"done", "followup"}
    /\ runs'[i].granted

\* C13 as stated: when a run whose role assignment succeeded completes,
\* its target is absent from message_history.
C13_AbsentWhenRunCompletes ==
    [][ \A i \in 1..Len(runs') :
          (runs'[i].granted /\ Completes(i)) =>
              runs'[i].member \notin DOMAIN history' ]_vars

\* C13 as amended: the target is absent from message_history after the
\* step that ends the purge loop of a run whose role assignment succeeded,
\* whatever the purge count and whatever was recorded for the target while
\* the run was suspended; that step completes the automatic run, while the
\* command still awaits the send of its success notice after it.
C13_AbsentWhenPurgeEnds ==
    [][ \A i \in 1..Len(runs') :
          /\ EndsPurge(i) => runs'[i].member \notin DOMAIN history'
          /\ (runs'[i].granted /\ runs'[i].pc \in {"done", "followup"}) =>
                (Resumed(i) /\ (EndsPurge(i) \/ runs[i].pc \in {"done", "followup"}))
          /\ (runs'[i].kind = "msg" /\ runs'[i].granted /\ Completes(i)) =>
                EndsPurge(i)
          /\ (runs'[i].kind = "cmd" /\ EndsPurge(i)) => runs'[i].pc = "followup"
      ]_vars

\* A command has ended its purge loop with nothing deleted; a message of
\* its target was recorded while it was suspended (no sweep has run) and
\* the target is absent from the history.
C13_Witness ==
    \E i, j \in 1..Len(runs) :
        /\ i < j
        /\ runs[i].kind = "cmd" /\ runs[i].granted /\ runs[i].pc = "followup"
        /\ runs[i].deleted = 0 /\ runs[i].results = <<0, 0>>
        /\ runs[j].kind = "msg" /\ runs[j].stored
        /\ runs[j].member = runs[i].member
        /\ clock = 0
        /\ runs[i].member \notin DOMAIN history

\* The step ends the enforcement of run i: the role assignment failed or
\* raised, or the purge loop ended.
EnforcementEnds(i) ==
    /\ Resumed(i)
    /\ runs[i].pc \in {"delete", "defer", "add_role", "purge"}
    /\ runs'[i].pc \in {"done", "followup", "failed"}

\* The step removes the whole entry of user u and nothing else.
RemovesEntryOf(u) ==
    /\ DOMAIN history' = (DOMAIN history) \ {u}
    /\ \A v \in DOMAIN history' : history'[v] = history[v]

\* C14 as stated: when the enforcement of a run ends, successful or not,
\* its target has no record left in the store.
C14_ClearedWhateverOutcome ==
    [][ \A i \in 1..Len(runs') :
          EnforcementEnds(i) => runs'[i].member \notin DOMAIN history' ]_vars

\* C14 as amended: the step that ends the purge loop of a run whose role
\* assignment succeeded removes the whole entry of the target, all its
\* records at once, and nothing else; every other step of an enforcement
\* run, a failed role assignment included, leaves message_history as it is.
C14_ClearedAtOnceOnSuccessOnly ==
    [][ \A i \in 1..Len(runs') :
          (StepOf(i) /\ IsEnforcement(runs'[i])) =>
              IF EndsPurge(i) THEN RemovesEntryOf(runs'[i].member)
              ELSE history' = history ]_vars

\* A command on a member whose message had been recorded before has ended
\* its purge loop, and the member has no entry any more (no sweep has run).
C14_Witness ==
    \E i, j \in 1..Len(runs) :
        /\ j < i
        /\ runs[j].kind = "msg" /\ runs[j].stored
        /\ runs[i].kind = "cmd" /\ runs[i].member = runs[j].member
        /\ runs[i].granted /\ runs[i].pc \in {"followup", "done"}
        /\ clock = 0
        /\ runs[i].member \notin DOMAIN history

\* _assign_quarantine_role has been called in run r.
AssignCalled(r) ==
    \/ r.kind = "msg" /\ r.started = 1 /\ r.pc # "delete"
    \/ r.kind = "cmd" /\ r.deferred /\ r.pc # "defer"

\* C15: _assign_quarantine_role returns True only in the step in which the
\* one add_roles call of the run returns without error; it returns False
\* with no add_roles call when the role id is 0 or the role is not in the
\* guild, and False when the add_roles call raises Forbidden.
C15_AssignRoleResult ==
    [][ /\ \A i \in 1..Len(runs') :
              /\ runs'[i].assigned = "True" =>
                    /\ runs'[i].roleCalls = 1
                    /\ Resumed(i)
                    /\ runs[i].assigned = "True" \/ AddRoleReturns(i, "ok")
              /\ runs'[i].granted <=> runs'[i].assigned = "True"
              /\ runs'[i].roleCalls <= 1
              /\ (cfg.quarantineRole = 0 \/ ~cfg.roleInGuild) =>
                    /\ runs'[i].roleCalls = 0
                    /\ AssignCalled(runs'[i]) => runs'[i].assigned = "False"
              /\ (runs'[i].assigned = "False" /\ runs'[i].roleCalls = 0) =>
                    (cfg.quarantineRole = 0 \/ ~cfg.roleInGuild)
        /\ \A i \in 1..Len(runs) :
              AddRoleReturns(i, "Forbidden") =>
                  (runs'[i].assigned = "False" /\ ~runs'[i].granted) ]_vars

\* A command whose add_roles call was refused: _assign_quarantine_role
\* returned False after its one call, and the failure notice was sent.
C15_Witness ==
    \E i \in 1..Len(runs) :
        /\ runs[i].kind = "cmd"
        /\ runs[i].roleCalls = 1
        /\ runs[i].assigned = "False"
        /\ runs[i].notice = "failure"

\* The bot may read and manage the messages of channel ch.
Purgeable(ch) ==
    PermissionsFor(ch).read_messages /\ PermissionsFor(ch).manage_messages

\* C16: the channels a run visits are the text channels and then the voice
\* channels of the guild, in order and each once; the purge calls went to
\* the visited channels the bot may read and manage and to no other; a
\* purge call that returns appends its count, one that raises Forbidden or
\* HTTPException adds 0, and either way the loop goes on to the next
\* channel; when the loop has ended every channel was visited.
C16_EveryChannelVisitedOnce ==
    /\ [](\A i \in 1..Len(runs) :
              /\ Len(runs[i].visited) <= Len(PurgeOrder)
              /\ runs[i].visited = SubSeq(PurgeOrder, 1, Len(runs[i].visited))
              /\ runs[i].purged = SelectSeq(runs[i].visited, Purgeable)
              /\ runs[i].purges = Len(runs[i].purged)
              /\ Len(runs[i].results) =
                    runs[i].purges - (IF runs[i].pc = "purge" THEN 1 ELSE 0)
              /\ (runs[i].granted /\ runs[i].pc # "purge") =>
                    runs[i].visited = PurgeOrder)
    /\ [][ \A i \in 1..Len(runs) :
             (runs[i].pc = "purge" /\ runs'[i].results # runs[i].results) =>
                /\ runs'[i].results =
                      Append(runs[i].results, runs'[i].deleted - runs[i].deleted)
                /\ Len(runs'[i].visited) > Len(runs[i].visited)
                /\ runs'[i].pc = "purge" \/ runs'[i].visited = PurgeOrder
                /\ \A outcome \in {"Forbidden", "HTTPException"}, n \in {0, 1} :
                      PurgeReturns(i, outcome, n) =>
                         (n = 0 /\ runs'[i].deleted = runs[i].deleted)
         ]_vars

\* A purge loop has ended: the two channels the bot may purge were sent a
\* call, the first contributed 0 and the second was still purged, and the
\* four channels without permission were visited and sent none.
C16_Witness ==
    \E i \in 1..Len(runs) :
        /\ runs[i].granted /\ runs[i].pc \in {"done", "followup"}
        /\ runs[i].visited = PurgeOrder
        /\ runs[i].purged = <<1, 5>>
        /\ runs[i].results = <<0, 1>>

RECURSIVE SumOf(_)
SumOf(s) == IF s = <<>> THEN 0 ELSE s[1] + SumOf(Tail(s))

\* C17: the count a successful manual quarantine reports is the value the
\* purge loop returned, which is the sum of the results of the purge calls
\* over all text and voice channels (channels that were skipped or whose
\* call failed add 0).
C17_ReportedCountIsSum ==
    \A i \in 1..Len(runs) :
        /\ runs[i].deleted = SumOf(runs[i].results)
        /\ runs[i].reported # -1 <=>
              (runs[i].kind = "cmd" /\ runs[i].notice = "success")
        /\ runs[i].notice = "success" =>
              /\ runs[i].reported = runs[i].deleted
              /\ runs[i].reported = SumOf(runs[i].results)
              /\ runs[i].visited = PurgeOrder
              /\ Len(runs[i].results) = Len(runs[i].purged)
              /\ runs[i].followups = 1

\* A manual quarantine reported 2 after both purge calls deleted a message.
C17_Witness ==
    \E i \in 1..Len(runs) :
        /\ runs[i].kind = "cmd" /\ runs[i].notice = "success"
        /\ runs[i].results = <<1, 1>> /\ runs[i].reported = 2

\* The command of run r is one the claim says is refused: the invoker does
\* not hold the staff role (nobody does when the id is 0), the target is a
\* bot, or the target is the invoker.
Refusal(r) ==
    \/ cfg.staffRole = 0
    \/ cfg.staffRole \notin RolesOf(r.invoker)
    \/ r.bot
    \/ r.member = r.invoker

\* C18: a refused command never makes a delete, role or purge call, never
\* defers and sends no follow-up; it sends exactly one message, ephemeral,
\* and none of its steps changes message_history.  Every other command
\* defers and sends no immediate message.
C18_RefusedCommandDoesNothing ==
    [][ \A i \in 1..Len(runs') :
           runs'[i].kind = "cmd" =>
              IF Refusal(runs'[i])
              THEN /\ runs'[i].roleCalls = 0 /\ runs'[i].assigned = "none"
                   /\ runs'[i].purges = 0 /\ runs'[i].visited = <<>>
                   /\ runs'[i].deletes = 0
                   /\ runs'[i].sent = 1 /\ runs'[i].ephemeral
                   /\ ~runs'[i].deferred /\ runs'[i].followups = 0
                   /\ runs'[i].pc \in {"send", "done"}
                   /\ StepOf(i) => history' = history
              ELSE runs'[i].sent = 0 /\ runs'[i].deferred ]_vars

\* A staff member's command was refused and has replied because no staff
\* role is configured, while messages were on record.
C18_Witness ==
    /\ cfg.staffRole = 0
    /\ history # EmptyHistory
    /\ \E i \in 1..Len(runs) :
          /\ runs[i].kind = "cmd" /\ runs[i].invoker = 3 /\ runs[i].member = 1
          /\ runs[i].pc = "done" /\ runs[i].sent = 1

\* Run r has ended: it returned, or an exception left its handler.
Ended(r) == r.pc \in {"done", "failed"}

\* C19: a command that passes the staff, bot and self checks defers before
\* its role call and before any purge call, and when it has ended it has
\* sent exactly one follow-up: the success notice if the role was assigned,
\* the failure notice otherwise; no run both sends an immediate message and
\* defers.
C19_DeferredThenOneFollowUp ==
    \A i \in 1..Len(runs) :
        /\ ~(runs[i].sent > 0 /\ runs[i].deferred)
        /\ (runs[i].kind = "cmd" /\ ~Refusal(runs[i])) =>
              /\ runs[i].deferred
              /\ runs[i].pc = "defer" =>
                    (runs[i].roleCalls = 0 /\ runs[i].purges = 0)
              /\ Ended(runs[i]) =>
                    /\ runs[i].followups = 1
                    /\ runs[i].notice =
                          (IF runs[i].granted THEN "success" ELSE "failure")

\* The part of C19 that the code keeps: the deferral comes first, and a
\* command that returns has sent exactly one follow-up.
C19_DeferredFirst ==
    \A i \in 1..Len(runs) :
        /\ ~(runs[i].sent > 0 /\ runs[i].deferred)
        /\ (runs[i].kind = "cmd" /\ ~Refusal(runs[i])) =>
              /\ runs[i].deferred
              /\ runs[i].pc = "defer" =>
                    (runs[i].roleCalls = 0 /\ runs[i].purges = 0)
              /\ runs[i].pc = "done" =>
                    /\ runs[i].followups = 1
                    /\ runs[i].notice =
                          (IF runs[i].granted THEN "success" ELSE "failure")
              /\ runs[i].pc = "failed" =>
                    (runs[i].followups = 0 /\ runs[i].assigned = "raised")

\* C20: no outcome of message.delete(), member.add_roles() or
\* channel.purge() makes a handler end with an unhandled error.
C20_NoUnhandledError ==
    \A i \in 1..Len(runs) : runs[i].pc # "failed"

\* What the code keeps of C20: a handler ends with an unhandled error only
\* by the exception out of its one add_roles call, before any purge call
\* and any follow-up.
C20_OnlyAddRolesEscapes ==
    [][ \A i \in 1..Len(runs') :
           runs'[i].pc = "failed" =>
              /\ runs'[i].assigned = "raised" /\ runs'[i].roleCalls = 1
              /\ runs'[i].purges = 0 /\ runs'[i].followups = 0
              /\ Resumed(i)
              /\ runs[i].pc = "failed" \/ AddRoleReturns(i, "NotFound") ]_vars

----------------------------------------------------------------------------
(* Properties of the sweeper task (scenario 4).                            *)

\* The task sleeps and nobody asked to cancel it.
Running == Sleeping(cleanup_task) /\ ~cleanup_task.must_cancel

\* The sleep of the running task is over.
Due == Running /\ clock >= cleanup_task.wake

\* The running task has just begun the sleep between two cycles.
AsleepAgain ==
    /\ Running /\ cleanup_task.state = "interval"
    /\ cleanup_task.wake = clock + CLEANUP_INTERVAL_SECONDS

FailedCycle == last.op = "cycle" /\ last.outcome = "Exception"

\* C21: a cycle that raises an error leaves the task asleep for the next
\* interval; the task ends only when it was cancelled;
\* after a failed cycle the sleep comes to its end and the next cycle runs
\* (unless the task is cancelled in between), however many cycles failed.
C21_FailedCycleKeepsLoop ==
    /\ [][ /\ (Due /\ Resume("Exception")) =>
                /\ cleanup_task' = NextSleep(cleanup_task, clock)
                /\ cleanup_task'.state = "interval"
                /\ FailedCycle'
           /\ cleanup_task'.state = "cancelled" =>
                (cleanup_task.state = "cancelled" \/ cleanup_task.must_cancel)
         ]_vars
    /\ FailedCycle ~> (Due \/ ~Running)
    /\ Due ~> (AsleepAgain \/ ~Running)

\* A cycle has failed and the task sleeps its next interval.
C21_Witness ==
    FailedCycle /\ AsleepAgain

\* Somebody asked to cancel the task, or it has ended.
Stopping == cleanup_task.must_cancel \/ cleanup_task.state = "cancelled"

ExpiredRecords(h, now) ==
    {e \in AllRecords(h) : Age(h, e, now) > MESSAGE_HISTORY_SECONDS}

\* C22: from the cancellation of the sleeping task on no cycle runs (the
\* store changes by the passing of time and by new records only), whether
\* the sleep is over or not; the request stays until the task has ended, the
\* resumed task ends instead of running a cycle, and it does end;
\* cog_unload without a task changes nothing.
C22_CancelStopsLoop ==
    /\ [][ /\ Stopping =>
                /\ Stopping'
                /\ cleanup_task'.state \in {cleanup_task.state, "cancelled"}
                /\ history' \in {history, Aged(history),
                                 RecordMessage(history, 1, <<"a">>, 1, clock)}
                /\ \A outcome \in {"ok", "Exception"} :
                      Resume(outcome) =>
                         (cleanup_task' = EndedTask /\ history' = history)
           /\ (CogUnload /\ cleanup_task.state = "none") =>
                (cleanup_task' = NoTask /\ history' = history)
           /\ (CogUnload /\ Sleeping(cleanup_task)) => Stopping'
         ]_vars
    /\ cleanup_task.must_cancel ~> cleanup_task.state = "cancelled"

\* The task was cancelled in a sleep and has ended by CancelledError, and a
\* record older than the retention window is still in the store.
C22_Witness ==
    /\ cleanup_task.state = "cancelled"
    /\ last.op = "cycle" /\ last.outcome = "CancelledError"
    /\ ExpiredRecords(history, clock) # {}

\* A step that takes records out of the store.
Removes == Cardinality(AllRecords(history')) < Cardinality(AllRecords(history))

\* C23: cog_load puts the task to sleep for the initial delay; records
\* leave the store only in a cycle of the running task, whose sleep (the
\* initial delay before the first cycle, the interval before every other)
\* is over, and each cycle is followed by the sleep of one interval; unless
\* the task is cancelled the cycles recur for ever, and a record older than
\* the retention window is eventually out of the store.
C23_SweepsRecurAfterDelay ==
    /\ [][ /\ CogLoad =>
                /\ cleanup_task'.state = "initial"
                /\ cleanup_task'.wake = clock + CLEANUP_INITIAL_DELAY
                /\ history' = history
           /\ Removes => (Due /\ Resume("ok"))
           /\ \A outcome \in {"ok", "Exception"} :
                 Resume(outcome) =>
                    /\ cleanup_task.must_cancel \/ clock >= cleanup_task.wake
                    /\ Due => AsleepAgain'
           /\ (Sleeping(cleanup_task) /\ clock < cleanup_task.wake) =>
                 cleanup_task'.state \in {cleanup_task.state, "cancelled"}
         ]_vars
    /\ []<><<Resume("ok") \/ Resume("Exception")>>_vars \/ <>[]~Running
    /\ (Running /\ ExpiredRecords(history, clock) # {}) ~>
          (ExpiredRecords(history, clock) = {} \/ ~Running)

\* A cycle of the running task has removed a record.
C23_Witness ==
    /\ last.op = "cycle" /\ last.outcome = "ok" /\ last.removed = 1
    /\ AsleepAgain

----------------------------------------------------------------------------
(* Properties of on_message over a series of messages.                     *)

\* The newest record of member u.
Newest(h, u) == h[u][Len(h[u])]

\* The run that the step has started.
Started == runs'[Len(runs')]

\* C24: with QUARANTINE_HONEYPOT_CHANNEL_ID unconfigured (0) no message
\* triggers a honeypot quarantine, a message in channel 0 included; every
\* message of a member in a guild goes on to the spam check and, when it is
\* not spam, _record_message appends its record.
C24_UnconfiguredHoneypotOff ==
    /\ [](cfg.honeypot = 0 =>
            \A i \in MsgRuns(runs) :
               /\ runs[i].trigger # "honeypot"
               /\ ~Ignored(runs[i]) => runs[i].checked
               /\ (runs[i].checked /\ runs[i].trigger # "spam") =>
                     runs[i].stored)
    /\ [][ (cfg.honeypot = 0 /\ Len(runs') > Len(runs) /\ Started.stored) =>
              /\ Started.member \in DOMAIN history'
              /\ Newest(history', Started.member) =
                    MessageRecord(Started.content, Started.channel, clock)
          ]_vars

\* Without a honeypot channel a message in channel 0 was checked, found
\* not to be spam and recorded.
C24_Witness ==
    /\ cfg.honeypot = 0
    /\ \E i \in MsgRuns(runs) :
          /\ runs[i].channel = 0 /\ runs[i].checked /\ runs[i].stored
          /\ runs[i].trigger = "none" /\ runs[i].deletes = 0
          /\ runs[i].member \in DOMAIN history
          /\ Newest(history, runs[i].member).channel_id = 0

----------------------------------------------------------------------------
(* Sweeps among the handlers.                                              *)

\* The records of member u that are younger than age at the time now.
Younger(h, u, now, age) ==
    SelectSeq(HistoryOf(h, u), LAMBDA msg : now - msg.timestamp < age)

Moved == {i \in 1..Len(runs') : i > Len(runs) \/ runs'[i] # runs[i]}

\* C26: a step of a handler for member A (on_message recording or
\* quarantining A, /quarantine on A, any return of a moderation call to
\* them, failed or not) changes the history sequence of no other member,
\* whatever handlers of other members are suspended meanwhile.
C26_OtherUsersUntouched ==
    [][runs' # runs =>
         /\ Cardinality(Moved) = 1
         /\ \A i \in Moved :
               \A B \in (DOMAIN history \cup DOMAIN history') \ {runs'[i].member} :
                  HistoryOf(history', B) = HistoryOf(history, B)
      ]_vars

\* Member 1 had a record and was then quarantined, which cleared it; the
\* record that member 2 got after that quarantine began is in the store.
C26_Witness ==
    \E i, k, j \in 1..Len(runs) :
       /\ i < k /\ k < j
       /\ runs[i].member = 1 /\ runs[i].stored
       /\ runs[k].member = 1 /\ runs[k].granted /\ runs[k].pc = "done"
       /\ runs[j].member = 2 /\ runs[j].stored
       /\ 1 \notin DOMAIN history
       /\ 2 \in DOMAIN history /\ Len(history[2]) = 1

----------------------------------------------------------------------------
(* The detector and the store.                                             *)

----------------------------------------------------------------------------
(* Repeated content over the channels.                                     *)

\* The step has started a handler of on_message.
Posted == Len(runs') = Len(runs) + 1 /\ Started.kind = "msg"

\* The history of the author of r holds nothing but k records of earlier
\* messages with the content of r, in k distinct channels other than r's.
SeriesBefore(h, r, k) ==
    LET hist == HistoryOf(h, r.member)
    IN  /\ Len(hist) = k
        /\ \A a \in 1..k :
              /\ hist[a].content = Lower(Truncate(r.content, MAX_CONTENT_LENGTH))
              /\ hist[a].channel_id # r.channel
              /\ \A b \in 1..k : hist[a].channel_id = hist[b].channel_id => a = b

\* The message of r is one that the claim is about: not in the honeypot
\* channel, and at least of the minimum length when trimmed.
Eligible(r, c) ==
    /\ ~Ignored(r)
    /\ ~HoneypotHit(r, c)
    /\ Len(Strip(r.content)) >= c.minLength

\* C28 as stated: of the same content posted in N distinct channels, N the
\* channel threshold, the first N - 1 messages are recorded and the N-th is
\* detected and handed to _handle_quarantine, whatever the content length.
C28_RepeatedContentDetected ==
    [][ (Posted /\ Eligible(Started, cfg)) =>
          \A k \in 0..(cfg.channelThreshold - 1) :
             SeriesBefore(history, Started, k) =>
                IF k < cfg.channelThreshold - 1
                THEN Started.stored /\ Started.trigger = "none"
                ELSE Started.trigger = "spam" /\ Started.started = 1
      ]_vars

\* What holds of C28: the same for content within the storage cap.
C28_ShortContentDetected ==
    [][ (Posted /\ Eligible(Started, cfg)
           /\ Len(Started.content) <= MAX_CONTENT_LENGTH) =>
          \A k \in 0..(cfg.channelThreshold - 1) :
             SeriesBefore(history, Started, k) =>
                IF k < cfg.channelThreshold - 1
                THEN Started.stored /\ Started.trigger = "none"
                ELSE Started.trigger = "spam" /\ Started.started = 1
      ]_vars

\* The set spam_channels that the detector builds for the message of r
\* from the records hist.
MatchedChannels(hist, r, c) ==
    SpamChannels(hist, Lower(Strip(r.content)), r.channel, c.similarityPct, 1, {})

\* The records of hist that are not older than the retention window.
InWindow(hist, now) ==
    SelectSeq(hist, LAMBDA msg : now - msg.timestamp <= MESSAGE_HISTORY_SECONDS)

\* C29 as stated: when a message is checked, a record older than the
\* retention window adds nothing to the matched channels, swept or not:
\* the detector finds what it would find in the records inside the window.
C29_ExpiredRecordsNotCounted ==
    [][ (Posted /\ Started.checked /\ Eligible(Started, cfg)) =>
          MatchedChannels(HistoryOf(history, Started.member), Started, cfg)
            = MatchedChannels(InWindow(HistoryOf(history, Started.member), clock),
                              Started, cfg)
      ]_vars

----------------------------------------------------------------------------
(* Staff in the honeypot channel.                                          *)

\* C30 as stated: a message of a member with the staff role in the
\* configured honeypot channel leads to no quarantine action: the message
\* is not deleted, no role is assigned, nothing is purged.
C30_StaffExemptFromHoneypot ==
    \A i \in MsgRuns(runs) :
       (~Ignored(runs[i]) /\ HoneypotHit(runs[i], cfg)
          /\ IsStaff(runs[i].member, cfg)) =>
          /\ runs[i].started = 0
          /\ runs[i].deletes = 0
          /\ runs[i].roleCalls = 0
          /\ runs[i].purges = 0

----------------------------------------------------------------------------
(* The order of a user's sequence (scenario 8).                            *)

\* The timestamps of s never decrease.
Chronological(s) ==
    \A i \in 1..(Len(s) - 1) : s[i].timestamp <= s[i + 1].timestamp

\* C31: whatever the interleaving of records, sweeps and clears, a user's
\* sequence holds at most 50 records, and they are the newest of the
\* records appended for the user that are still kept, each once, in the
\* order of recording and of time; a sweep takes away a prefix.
C31_SequenceInRecordingOrder ==
    /\ [](\A u \in DOMAIN history :
             /\ Len(history[u]) <= MAX_MESSAGES_PER_USER
             /\ Len(history[u]) <= Len(LogOf(u))
             /\ history[u] = LastN(LogOf(u), Len(history[u]))
             /\ Chronological(history[u]))
    /\ [][ last'.op = "sweep" =>
              \A u \in DOMAIN history :
                 HistoryOf(history', u)
                   = LastN(history[u], Len(HistoryOf(history', u))) ]_vars

\* More than 50 records were appended, and a sweep has taken a prefix of
\* the full sequence of 50 and left the rest.
C31_Witness ==
    /\ last.op = "sweep"
    /\ last.before = MAX_MESSAGES_PER_USER
    /\ last.after > 0
    /\ Len(LogOf(1)) > MAX_MESSAGES_PER_USER

----------------------------------------------------------------------------
(* Enforcement runs of one member.                                         *)

\* The runs of on_message that called _handle_quarantine.
Enforcing(rs) == {i \in MsgRuns(rs) : rs[i].started > 0}

\* C32 as stated: of one member no two runs of _handle_quarantine are under
\* way together, and the role is not asked for twice for them.
C32_OneEnforcementPerUser ==
    \A i, j \in Enforcing(runs) :
       (i # j /\ runs[i].member = runs[j].member) =>
          /\ ~(i \in Pending /\ j \in Pending)
          /\ ~(runs[i].roleCalls > 0 /\ runs[j].roleCalls > 0
                 /\ (i \in Pending \/ j \in Pending))

\* The step takes run i out of its purge loop, to the clear step.
ReachesClear(i) ==
    /\ Resumed(i)
    /\ runs[i].pc \in {"add_role", "purge"}
    /\ runs'[i].pc \notin {"add_role", "purge"}
    /\ runs'[i].granted

\* C33: the clear step removes the target's entry when there is one and
\* does nothing when there is none (a sweep or another quarantine of the
\* same member took it meanwhile); either way no error ends the run: the
\* automatic run completes and the command sends its success notice.
C33_ClearIsIdempotent ==
    [][ \A i \in 1..Len(runs) :
          ReachesClear(i) =>
             /\ runs'[i].pc = IF runs[i].kind = "cmd" THEN "followup" ELSE "done"
             /\ runs[i].kind = "cmd" =>
                   (runs'[i].followups = runs[i].followups + 1
                      /\ runs'[i].notice = "success")
             /\ runs[i].member \notin DOMAIN history'
             /\ runs[i].member \notin DOMAIN history => history' = history
             /\ \A u \in DOMAIN history \ {runs[i].member} :
                   u \in DOMAIN history' /\ history'[u] = history[u]
      ]_vars

\* Member 1 had one record; an automatic quarantine and a /quarantine of
\* member 1 overlapped and both came to the clear step and completed, the
\* later of them with the entry gone.
C33_Witness ==
    \E i, k, j \in 1..Len(runs) :
       /\ i < k /\ i < j /\ k # j
       /\ runs[i].member = 1 /\ runs[i].stored
       /\ runs[k].member = 1 /\ runs[k].kind = "msg" /\ runs[k].granted
       /\ runs[k].pc = "done" /\ runs[k].purges > 0
       /\ runs[j].member = 1 /\ runs[j].kind = "cmd" /\ runs[j].granted
       /\ runs[j].pc = "done" /\ runs[j].notice = "success"
       /\ 1 \notin DOMAIN history

----------------------------------------------------------------------------
(* Triggers that are not consumed.                                         *)

\* Run i was a spam trigger whose role assignment failed.
FailedSpamRun(rs, i) ==
    /\ rs[i].kind = "msg" /\ rs[i].trigger = "spam"
    /\ rs[i].assigned = "False" /\ rs[i].pc = "done"

\* C34: a spam trigger whose role assignment fails has called delete for
\* its message and has neither recorded it nor purged, and the step in
\* which the assignment fails leaves the store as it was; a later message
\* of the member with the same content, in a channel other than those of
\* the records that matched, starts _handle_quarantine again and is
\* deleted again.
C34_FailedTriggerNotConsumed ==
    /\ [](\A i \in 1..Len(runs) :
             FailedSpamRun(runs, i) =>
                /\ runs[i].deletes = 1 /\ ~runs[i].stored
                /\ runs[i].purges = 0 /\ ~runs[i].granted)
    /\ [][ \A i \in 1..Len(runs) :
              (runs[i].trigger = "spam" /\ runs[i].pc = "add_role"
                 /\ runs'[i].assigned = "False") => history' = history ]_vars
    /\ [][ (Posted /\ Eligible(Started, cfg)
              /\ SeriesBefore(history, Started, cfg.channelThreshold - 1)
              /\ \E i \in 1..Len(runs) :
                    /\ FailedSpamRun(runs, i)
                    /\ runs[i].member = Started.member
                    /\ runs[i].content = Started.content) =>
             /\ Started.trigger = "spam" /\ Started.started = 1
             /\ Started.deletes = 1 /\ ~Started.stored
             /\ history' = history ]_vars

\* After a spam trigger of member 1 whose role assignment failed, the
\* records being still there, the next message with the content has
\* triggered again.
C34_Witness ==
    \E i, k, j \in 1..Len(runs) :
       /\ i < k /\ k < j
       /\ runs[i].member = 1 /\ runs[i].stored
       /\ FailedSpamRun(runs, k) /\ runs[k].member = 1 /\ runs[k].roleCalls = 1
       /\ runs[j].member = 1 /\ runs[j].trigger = "spam" /\ runs[j].deletes = 1
       /\ runs[j].content = runs[k].content
       /\ 1 \in DOMAIN history /\ Len(history[1]) = 1

----------------------------------------------------------------------------
(* After a quarantine.                                                     *)

\* In the store h a message m is handled as the first message of a new
\* user: it is not ignored, triggers nothing, and its record is the only
\* one of its author afterwards.
HandledAsNew(h, m, c) ==
    /\ ~Ignored(m)
    /\ ~DetectCrossChannelSpam(h, m.member, m.content, m.channel, c)
    /\ OnMessageRun(m, FALSE, c).trigger = "none"
    /\ OnMessageRun(m, FALSE, c).stored
    /\ RecordMessage(h, m.member, m.content, m.channel, clock)[m.member]
          = <<MessageRecord(m.content, m.channel, clock)>>

\* The messages that member u can send next, outside the honeypot channel.
NextMessages(u, c) == {m \in FrameMsgs : m.member = u /\ ~HoneypotHit(m, c)}

\* C35 as stated: when a successful quarantine of a member has completed,
\* their next message is handled as the first message of a new user.
C35_LikeNewAfterCompletion ==
    [][ \A i \in 1..Len(runs) :
          (Resumed(i) /\ Completes(i) /\ runs'[i].granted) =>
             \A m \in NextMessages(runs[i].member, cfg) :
                HandledAsNew(history', m, cfg) ]_vars

\* C35: from the clear step of a successful quarantine on, the member's
\* next message is handled as the first message of a new user; nothing in
\* the cog remembers the quarantine.
C35_LikeNewAfterClear ==
    /\ [][ \A i \in 1..Len(runs) :
              ReachesClear(i) =>
                 \A m \in NextMessages(runs[i].member, cfg) :
                    HandledAsNew(history', m, cfg) ]_vars
    /\ [][ (Posted /\ Started.member \notin DOMAIN history
              /\ ~Ignored(Started) /\ ~HoneypotHit(Started, cfg)) =>
             /\ Started.trigger = "none" /\ Started.stored
             /\ history'[Started.member]
                   = <<MessageRecord(Started.content, Started.channel, clock)>>
          ]_vars

\* Member 1 had a record, was quarantined after a spam trigger, and their
\* message after that is recorded as their only record.
C35_Witness ==
    \E i, k, j \in 1..Len(runs) :
       /\ i < k /\ k < j
       /\ runs[i].member = 1 /\ runs[i].stored
       /\ runs[k].member = 1 /\ runs[k].trigger = "spam"
       /\ runs[k].granted /\ runs[k].pc = "done"
       /\ runs[j].member = 1 /\ runs[j].stored /\ runs[j].trigger = "none"
       /\ 1 \in DOMAIN history
       /\ history[1] = <<MessageRecord(runs[j].content, runs[j].channel, clock)>>

----------------------------------------------------------------------------
(* The workshop cog (scenario 9).                                          *)

\* Every invocation of on_voice_state_update has returned, none by an
\* exception.
WorkshopSettled ==
    \A i \in 1..Len(workshop.handlers) : workshop.handlers[i].pc = "done"

\* C36: once all handlers of a member's voice-state updates have completed,
\* the member has the view overwrite of the workshop text channel if and
\* only if the latest update left the member in the workshop voice channel,
\* also when a join handler and a leave handler overlap at their awaits.
C36_OverwriteIffInWorkshopVoice ==
    (Len(workshop.handlers) > 0 /\ WorkshopSettled)
        => (workshop.overwrite <=> workshop.channel = "workshop")

----------------------------------------------------------------------------
(* The starboard cog (scenario 10).                                        *)

\* The posts of source message m in the starboard channel.
PostsOf(m) ==
    {k \in DOMAIN starboard.posts : starboard.posts[k].source = m}

\* C37: each source message is posted to the starboard channel at most
\* once, also when several star reactions on a message not yet starred are
\* handled concurrently.
C37_PostedAtMostOnce ==
    \A m \in SourceMessages : Cardinality(PostsOf(m)) <= 1

----------------------------------------------------------------------------
(* The role assignment cog (scenario 11).                                  *)

\* C38: loading RoleAssignmentCog starts the reset_reactions background
\* task exactly once: once the cog is added, loop.create_task has been given
\* exactly one task, the coroutine reset_reactions.
C38_LoadStartsResetTaskOnce ==
    role_assignment.loaded =>
        /\ Len(role_assignment.tasks) = 1
        /\ role_assignment.tasks[1] = "reset_reactions"

====
